---------------------------- MODULE Spec2Model ----------------------------
(***************************************************************************)
(* A model of the scoring core of MStressV2 (ai-services):                 *)
(*   - WeightedAIAssessmentEngine   (models/weighted_ai_assessment.py)     *)
(*   - WeightedAssessmentEngine     (weighted_assessment_engine.py)        *)
(*   - DASS21ScoringService         (services/dass21_scoring_service.py)   *)
(*   - the /score/dass21 endpoint   (main.py)                              *)
(*   - AssessmentService            (services/assessment_service.py)       *)
(*   - calculate_stress_level       (services/facial_emotion_service.py)   *)
(*   - the severity classifiers of the voice scorers                       *)
(*   - FacialEmotionService's temporal window and /analyze/webcam-frame    *)
(*   - ComprehensiveAssessmentController (the step-wise assessment flow)   *)
(*   - EnhancedFacialBehaviorAnalyzer and CPUFacialBehaviorAnalyzer        *)
(*     (models/facial_behavior_analyzer.py): stress level and histories    *)
(*                                                                         *)
(* Python numbers are modelled as exact rationals [n |-> Int, d |-> Nat]   *)
(* in lowest terms, so that x = y is equality of values.  round(x, 2) is   *)
(* rounding of the exact value to hundredths (ties to even); the binary    *)
(* representation error of floats is not modelled.                         *)
(***************************************************************************)
EXTENDS Integers, Sequences, FiniteSets, TLC

VARIABLES
    component_weights,   \* WeightedAIAssessmentEngine.component_weights (self)
    voice_results,       \* the four arguments of calculate_comprehensive_scores
    sentiment_results,
    keyword_results,
    facial_results,
    report,              \* what WeightedAIAssessmentEngine.calculate_comprehensive_scores returned
    wa_report,           \* what WeightedAssessmentEngine.calculate_comprehensive_scores returned
    dass21_scorer,       \* main.dass21_scorer: the service, or None when its import failed
    responses,           \* the argument of DASS21ScoringService.score_assessment
    dass_result,         \* what score_assessment returned or raised
    http_response,       \* what the /score/dass21 endpoint answered
    questionnaire_responses, \* the arguments of AssessmentService.generate_comprehensive_assessment:
    facial_image_data,       \*   the responses, and the image (None, or what the facial service makes of it)
    assessment,          \* what generate_comprehensive_assessment returned
    classifier_score,    \* the arguments of the _score_to_severity methods
    classifier_category,
    classifier_bands,    \* what each severity classifier returned for them
    facial_models,       \* FacialEmotionService: which of backbone_model, lstm_model were loaded
    lstm_features,       \* FacialEmotionService.lstm_features (of the one global instance)
    frames_received,     \* how many /analyze/webcam-frame requests have arrived
    last_reset_frame,    \* the arrival number of the last request that reset the window, or 0
    analysed_since_reset, \* how many face images the LSTM has analysed since then
    webcam_request,      \* the last /analyze/webcam-frame request and what the handler did with it
    assessment_flow,     \* st.session_state.assessment_flow of the assessment controller
    face_emotions,       \* the argument of EnhancedFacialBehaviorAnalyzer._calculate_stress_level
    overall_stress,      \* what _calculate_stress_level returned
    emotion_history,     \* EnhancedFacialBehaviorAnalyzer.emotion_history
    entries_arrived,     \* how many entries analyze_frame has appended to it so far
    face_history,        \* CPUFacialBehaviorAnalyzer.face_history
    face_arrivals,       \* every coordinate _calculate_stability was called with, in order
    face_stability       \* what _calculate_stability returned

vars == <<component_weights, voice_results, sentiment_results, keyword_results,
          facial_results, report, wa_report, dass21_scorer, responses, dass_result,
          http_response, questionnaire_responses, facial_image_data, assessment,
          classifier_score, classifier_category, classifier_bands,
          facial_models, lstm_features, frames_received, last_reset_frame,
          analysed_since_reset, webcam_request, assessment_flow, face_emotions,
          overall_stress, emotion_history, entries_arrived, face_history,
          face_arrivals, face_stability>>

fusion_vars == <<component_weights, voice_results, sentiment_results,
                 keyword_results, facial_results, report, wa_report>>

dass_vars == <<dass21_scorer, responses, dass_result, http_response>>

assessment_vars == <<questionnaire_responses, facial_image_data, assessment>>

classifier_vars == <<classifier_score, classifier_category, classifier_bands>>

webcam_vars == <<facial_models, lstm_features, frames_received, last_reset_frame,
                 analysed_since_reset, webcam_request>>

controller_vars == <<assessment_flow>>

analyzer_vars == <<face_emotions, overall_stress, emotion_history, entries_arrived,
                   face_history, face_arrivals, face_stability>>

-----------------------------------------------------------------------------
(* Python values *)

\* None
None == [py_none |-> TRUE]

\* {} (an empty dict)
EmptyDict == [k \in {} |-> 0]

\* a call that has not been made yet
NotCalled == [not_called |-> TRUE]

\* `if x:` for x a dict or None
Truthy(x) == x # None /\ DOMAIN x # {}

\* dict.get(key, default)
Get(dict, key, default) == IF key \in DOMAIN dict THEN dict[key] ELSE default

\* an instance of DASS21ScoringService (it holds no state but total_questions)
DASS21ScoringService == [service |-> "DASS21ScoringService"]

\* an exception that left the function
Raised(exc) == [raised |-> exc]

IsRaised(x) == "raised" \in DOMAIN x

-----------------------------------------------------------------------------
(* The services that a specification does not exercise stay as constructed *)

\* FacialEmotionService before any frame: no window, and no model found on disk
WebcamIdle ==
    /\ facial_models = [backbone_model |-> FALSE, lstm_model |-> FALSE]
    /\ lstm_features = << >>
    /\ frames_received = 0
    /\ last_reset_frame = 0
    /\ analysed_since_reset = 0
    /\ webcam_request = NotCalled

\* a Streamlit session in which no controller was constructed
ControllerIdle == assessment_flow = NotCalled

\* the two facial behaviour analyzers before any frame
AnalyzerIdle ==
    /\ face_emotions = << >>
    /\ overall_stress = NotCalled
    /\ emotion_history = << >>
    /\ entries_arrived = 0
    /\ face_history = << >>
    /\ face_arrivals = << >>
    /\ face_stability = NotCalled

-----------------------------------------------------------------------------
(* Exact arithmetic *)

Abs(i) == IF i < 0 THEN -i ELSE i

RECURSIVE GCD(_, _)
GCD(a, b) == IF b = 0 THEN a ELSE GCD(b, a % b)

\* the rational n/d (d # 0) in lowest terms with a positive denominator
Rat(n, d) ==
    LET g == GCD(Abs(n), Abs(d))
        s == IF d < 0 THEN -1 ELSE 1
    IN  [n |-> s * (n \div g), d |-> s * (d \div g)]

Int2Rat(i) == [n |-> i, d |-> 1]

Zero == Int2Rat(0)

RatAdd(a, b) == Rat(a.n * b.d + b.n * a.d, a.d * b.d)

RatSub(a, b) == Rat(a.n * b.d - b.n * a.d, a.d * b.d)

RatMul(a, b) == Rat(a.n * b.n, a.d * b.d)

\* a / b, b # 0
RatDiv(a, b) == Rat(a.n * b.d, a.d * b.n)

RatLE(a, b) == a.n * b.d <= b.n * a.d

RatLT(a, b) == a.n * b.d < b.n * a.d

RatMin(a, b) == IF RatLT(b, a) THEN b ELSE a

RatMax(a, b) == IF RatLT(a, b) THEN b ELSE a

RatAbs(a) == [n |-> Abs(a.n), d |-> a.d]

\* the integer nearest to n/d (d > 0), ties to the even one
RoundHalfEven(n, d) ==
    LET q == n \div d
        r == n - q * d
    IN  IF 2 * r < d THEN q
        ELSE IF 2 * r > d THEN q + 1
        ELSE IF q % 2 = 0 THEN q ELSE q + 1

\* the integer part of n/d, towards zero: int(x)
Truncate(a) == IF a.n >= 0 THEN a.n \div a.d ELSE -((-a.n) \div a.d)

-----------------------------------------------------------------------------
(* WeightedAIAssessmentEngine: tables *)

Categories == <<"depression", "anxiety", "stress">>

CategorySet == {"depression", "anxiety", "stress"}

\* the keys of component_weights in the order the dict is iterated
Components == <<"voice_analysis", "sentiment_analysis", "keyword_matching", "facial_analysis">>

ComponentSet == {Components[i] : i \in 1..Len(Components)}

\* self.component_weights as __init__ builds it
InitialComponentWeights ==
    [c \in ComponentSet |->
        CASE c = "voice_analysis"     -> Rat(40, 100)
          [] c = "sentiment_analysis" -> Rat(25, 100)
          [] c = "keyword_matching"   -> Rat(20, 100)
          [] c = "facial_analysis"    -> Rat(15, 100)]

\* the severity names in the order the threshold dicts are iterated
severity_levels == <<"normal", "mild", "moderate", "severe", "extremely_severe">>

SeveritySet == {severity_levels[i] : i \in 1..Len(severity_levels)}

\* self.severity_thresholds[category][severity] = <<min_score, max_score>>
severity_thresholds ==
    [c \in CategorySet |->
        CASE c = "depression" ->
                [s \in SeveritySet |->
                    CASE s = "normal" -> <<0, 9>>
                      [] s = "mild" -> <<10, 13>>
                      [] s = "moderate" -> <<14, 20>>
                      [] s = "severe" -> <<21, 27>>
                      [] s = "extremely_severe" -> <<28, 100>>]
          [] c = "anxiety" ->
                [s \in SeveritySet |->
                    CASE s = "normal" -> <<0, 7>>
                      [] s = "mild" -> <<8, 9>>
                      [] s = "moderate" -> <<10, 14>>
                      [] s = "severe" -> <<15, 19>>
                      [] s = "extremely_severe" -> <<20, 100>>]
          [] c = "stress" ->
                [s \in SeveritySet |->
                    CASE s = "normal" -> <<0, 14>>
                      [] s = "mild" -> <<15, 18>>
                      [] s = "moderate" -> <<19, 25>>
                      [] s = "severe" -> <<26, 33>>
                      [] s = "extremely_severe" -> <<34, 100>>]]

\* an initial entry that carries the default confidence of a voice result
ZeroComponentScore_HalfConfidence ==
    [depression |-> [n |-> 0, d |-> 1], anxiety |-> [n |-> 0, d |-> 1],
     stress |-> [n |-> 0, d |-> 1], confidence |-> [n |-> 1, d |-> 2]]

\* the all-zero entry component_scores starts with
ZeroComponentScore ==
    [depression |-> Zero, anxiety |-> Zero, stress |-> Zero, confidence |-> Zero]

-----------------------------------------------------------------------------
(* WeightedAIAssessmentEngine: the four normalizers *)

Hundred == Int2Rat(100)

One == Int2Rat(1)

_process_voice_results(voice) ==
    IF ~Truthy(voice) THEN ZeroComponentScore
    ELSE
        LET depression_score == Get(Get(voice, "depression", EmptyDict), "score", Zero)
            anxiety_score    == Get(Get(voice, "anxiety", EmptyDict), "score", Zero)
            stress_score     == Get(Get(voice, "stress", EmptyDict), "score", Zero)
            confidence       == Get(Get(voice, "depression", EmptyDict), "confidence", Rat(1, 2))
        IN  [depression |-> RatMin(depression_score, Hundred),
             anxiety    |-> RatMin(anxiety_score, Hundred),
             stress     |-> RatMin(stress_score, Hundred),
             confidence |-> confidence]

\* mutant: the domain multipliers 80, 70, 60 alone, without the shares that
\* anxiety takes from 1 - neutral and stress from 1 - positive
_process_sentiment_results_MultipliersOnly(sentiment) ==
    IF ~Truthy(sentiment) THEN ZeroComponentScore
    ELSE
        LET negative_score == Get(sentiment, "negative", Zero)
            positive_score == Get(sentiment, "positive", Zero)
            neutral_score  == Get(sentiment, "neutral", Zero)
        IN  [depression |-> RatMin(RatMul(negative_score, Int2Rat(80)), Hundred),
             anxiety    |-> RatMin(RatMul(negative_score, Int2Rat(70)), Hundred),
             stress     |-> RatMin(RatMul(negative_score, Int2Rat(60)), Hundred),
             confidence |-> RatMax(RatMax(negative_score, positive_score), neutral_score)]

_process_sentiment_results(sentiment) ==
    IF ~Truthy(sentiment) THEN ZeroComponentScore
    ELSE
        LET negative_score == Get(sentiment, "negative", Zero)
            positive_score == Get(sentiment, "positive", Zero)
            neutral_score  == Get(sentiment, "neutral", Zero)
            depression_score == RatMul(negative_score, Int2Rat(80))
            anxiety_score    == RatAdd(RatMul(negative_score, Int2Rat(70)),
                                       RatMul(RatSub(One, neutral_score), Int2Rat(20)))
            stress_score     == RatAdd(RatMul(negative_score, Int2Rat(60)),
                                       RatMul(RatSub(One, positive_score), Int2Rat(30)))
            confidence == RatMax(RatMax(negative_score, positive_score), neutral_score)
        IN  [depression |-> RatMin(depression_score, Hundred),
             anxiety    |-> RatMin(anxiety_score, Hundred),
             stress     |-> RatMin(stress_score, Hundred),
             confidence |-> confidence]

\* a keyword normalizer that scales the density by 200
_process_keyword_results_Times200(keyword) ==
    IF ~Truthy(keyword) THEN ZeroComponentScore
    ELSE
        LET depression_keywords == Get(keyword, "depression_indicators", 0)
            anxiety_keywords    == Get(keyword, "anxiety_indicators", 0)
            stress_keywords     == Get(keyword, "stress_indicators", 0)
            total_words         == Get(keyword, "total_words", 1)
            density(k) == RatMin(RatMul(Rat(k, total_words), Int2Rat(200)), Hundred)
            total_keywords == depression_keywords + anxiety_keywords + stress_keywords
        IN  IF total_words = 0 THEN Raised("ZeroDivisionError")
            ELSE [depression |-> density(depression_keywords),
                  anxiety    |-> density(anxiety_keywords),
                  stress     |-> density(stress_keywords),
                  confidence |-> RatMin(Rat(total_keywords, 10), One)]

\* keyword counts and total_words are integers; x / 0 raises ZeroDivisionError
_process_keyword_results(keyword) ==
    IF ~Truthy(keyword) THEN ZeroComponentScore
    ELSE
        LET depression_keywords == Get(keyword, "depression_indicators", 0)
            anxiety_keywords    == Get(keyword, "anxiety_indicators", 0)
            stress_keywords     == Get(keyword, "stress_indicators", 0)
            total_words         == Get(keyword, "total_words", 1)
            density(k) == RatMin(RatMul(Rat(k, total_words), Int2Rat(500)), Hundred)
            total_keywords == depression_keywords + anxiety_keywords + stress_keywords
        IN  IF total_words = 0 THEN Raised("ZeroDivisionError")
            ELSE [depression |-> density(depression_keywords),
                  anxiety    |-> density(anxiety_keywords),
                  stress     |-> density(stress_keywords),
                  confidence |-> RatMin(Rat(total_keywords, 10), One)]

_process_facial_results(facial) ==
    IF ~Truthy(facial) THEN ZeroComponentScore
    ELSE
        LET sadness   == Get(facial, "sadness", Zero)
            fear      == Get(facial, "fear", Zero)
            anger     == Get(facial, "anger", Zero)
            happiness == Get(facial, "happiness", Zero)
            depression_score == RatAdd(RatMul(sadness, Int2Rat(80)),
                                       RatMul(RatSub(One, happiness), Int2Rat(20)))
            anxiety_score    == RatAdd(RatMul(fear, Int2Rat(70)), RatMul(sadness, Int2Rat(20)))
            stress_score     == RatAdd(RatMul(anger, Int2Rat(60)), RatMul(fear, Int2Rat(30)))
            confidence == RatMax(RatMax(RatMax(sadness, fear), anger), happiness)
        IN  [depression |-> RatMin(depression_score, Hundred),
             anxiety    |-> RatMin(anxiety_score, Hundred),
             stress     |-> RatMin(stress_score, Hundred),
             confidence |-> confidence]

-----------------------------------------------------------------------------
(* WeightedAIAssessmentEngine: fusion, severity, risk, recommendations *)

\* round(x, 2)
Round2(x) == Rat(RoundHalfEven(100 * x.n, x.d), 100)

SetMin(S) == CHOOSE x \in S : \A y \in S : x <= y

SetMax(S) == CHOOSE x \in S : \A y \in S : x >= y

\* the first severity, in dict order, whose (min_score, max_score) contains the
\* score; 'normal' when the loop ends without a match
_score_to_severity(score, category) ==
    LET thresholds == severity_thresholds[category]
        matching == {i \in 1..Len(severity_levels) :
                        /\ RatLE(Int2Rat(thresholds[severity_levels[i]][1]), score)
                        /\ RatLE(score, Int2Rat(thresholds[severity_levels[i]][2]))}
    IN  IF matching # {} THEN severity_levels[SetMin(matching)] ELSE "normal"

\* mutant: the component weight alone, the confidence ignored
EffectiveWeight_IgnoringConfidence(weight, confidence) == weight

\* mutant: the confidence floored at 0.1
EffectiveWeight_FlooredConfidence(weight, confidence) ==
    RatMul(weight, RatMax(confidence, Rat(1, 10)))

\* effective_weight = weight * confidence
EffectiveWeight(weight, confidence) == RatMul(weight, confidence)

\* the loop over self.component_weights.items(), from the i-th component on
RECURSIVE AccumulateComponents(_, _, _, _)
AccumulateComponents(i, component_scores, weights, acc) ==
    IF i > Len(Components) THEN acc
    ELSE
        LET scores == component_scores[Components[i]]
            effective_weight == EffectiveWeight(weights[Components[i]],
                                                Get(scores, "confidence", Zero))
        IN  AccumulateComponents(i + 1, component_scores, weights,
                [total_weight |-> RatAdd(acc.total_weight, effective_weight),
                 depression |-> RatAdd(acc.depression, RatMul(scores.depression, effective_weight)),
                 anxiety    |-> RatAdd(acc.anxiety, RatMul(scores.anxiety, effective_weight)),
                 stress     |-> RatAdd(acc.stress, RatMul(scores.stress, effective_weight))])

\* mutant: a plain weighted average, divided by the nominal weights' sum 1.0
NormalizeByTotalWeight_Nominal(sum, total_weight) ==
    IF RatLT(Zero, total_weight) THEN Round2(sum) ELSE sum

\* the sums are divided and rounded only when total_weight > 0
NormalizeByTotalWeight(sum, total_weight) ==
    IF RatLT(Zero, total_weight) THEN Round2(RatDiv(sum, total_weight)) ELSE sum

_calculate_weighted_scores(component_scores, weights) ==
    LET acc == AccumulateComponents(1, component_scores, weights,
                   [total_weight |-> Zero, depression |-> Zero,
                    anxiety |-> Zero, stress |-> Zero])
        depression == NormalizeByTotalWeight(acc.depression, acc.total_weight)
        anxiety    == NormalizeByTotalWeight(acc.anxiety, acc.total_weight)
        stress     == NormalizeByTotalWeight(acc.stress, acc.total_weight)
    IN  [depression |-> depression,
         anxiety    |-> anxiety,
         stress     |-> stress,
         depression_severity |-> _score_to_severity(depression, "depression"),
         anxiety_severity    |-> _score_to_severity(anxiety, "anxiety"),
         stress_severity     |-> _score_to_severity(stress, "stress")]

\* final_scores[f'{category}_severity']
SeverityOf(final_scores, category) ==
    CASE category = "depression" -> final_scores.depression_severity
      [] category = "anxiety"    -> final_scores.anxiety_severity
      [] category = "stress"     -> final_scores.stress_severity

\* a recommendation f"<text> {category} <rest>" is the pair <<text, category>>
RecommendationFor(severity, category) ==
    IF severity \in {"severe", "extremely_severe"}
    THEN << <<"Immediate professional consultation recommended for", category>> >>
    ELSE IF severity = "moderate"
    THEN << <<"Consider professional support for management", category>> >>
    ELSE IF severity = "mild"
    THEN << <<"Monitor levels and practice self-care techniques", category>> >>
    ELSE << >>

_generate_recommendations(final_scores) ==
    LET recommendations ==
            RecommendationFor(SeverityOf(final_scores, "depression"), "depression")
            \o RecommendationFor(SeverityOf(final_scores, "anxiety"), "anxiety")
            \o RecommendationFor(SeverityOf(final_scores, "stress"), "stress")
    IN  IF recommendations = << >>
        THEN << <<"Mental health indicators appear normal - continue healthy practices", "">> >>
        ELSE recommendations

\* severity_levels.index(s)
SeverityIndex(s) == CHOOSE i \in 1..Len(severity_levels) : severity_levels[i] = s

\* a risk table that sends mild to medium
risk_mapping_MildMedium(severity) ==
    CASE severity = "normal"           -> "low"
      [] severity = "mild"             -> "medium"
      [] severity = "moderate"         -> "medium"
      [] severity = "severe"           -> "high"
      [] severity = "extremely_severe" -> "critical"

risk_mapping(severity) ==
    CASE severity = "normal"           -> "low"
      [] severity = "mild"             -> "low"
      [] severity = "moderate"         -> "medium"
      [] severity = "severe"           -> "high"
      [] severity = "extremely_severe" -> "critical"

_assess_risk_level(final_scores) ==
    LET max_severity_index == SetMax({SeverityIndex(SeverityOf(final_scores, c)) : c \in CategorySet})
        overall_severity == severity_levels[max_severity_index]
    IN  [overall_risk |-> risk_mapping(overall_severity),
         highest_severity |-> overall_severity,
         requires_attention |-> overall_severity \in {"moderate", "severe", "extremely_severe"}]

RECURSIVE RatSum(_)
RatSum(seq) == IF seq = << >> THEN Zero ELSE RatAdd(Head(seq), RatSum(Tail(seq)))

RECURSIVE RatSeqMin(_)
RatSeqMin(seq) == IF Len(seq) = 1 THEN seq[1] ELSE RatMin(seq[1], RatSeqMin(Tail(seq)))

RECURSIVE RatSeqMax(_)
RatSeqMax(seq) == IF Len(seq) = 1 THEN seq[1] ELSE RatMax(seq[1], RatSeqMax(Tail(seq)))

_calculate_overall_confidence(component_scores) ==
    LET all == [i \in 1..Len(Components) |-> Get(component_scores[Components[i]], "confidence", Zero)]
        confidences == SelectSeq(all, LAMBDA c : RatLT(Zero, c))
    IN  IF confidences = << >>
        THEN [overall_confidence |-> Zero, component_count |-> 0]
        ELSE [overall_confidence |-> Round2(RatDiv(RatSum(confidences), Int2Rat(Len(confidences)))),
              component_count |-> Len(confidences),
              confidence_range |-> [min |-> Round2(RatSeqMin(confidences)),
                                    max |-> Round2(RatSeqMax(confidences))]]

\* component_scores after the four `if <modality>_results:` blocks
ComponentScores(voice, sentiment, keyword, facial) ==
    [c \in ComponentSet |->
        CASE c = "voice_analysis"     -> _process_voice_results(voice)
          [] c = "sentiment_analysis" -> _process_sentiment_results(sentiment)
          [] c = "keyword_matching"   -> _process_keyword_results(keyword)
          [] c = "facial_analysis"    -> _process_facial_results(facial)]

\* the report, or the exception that leaves the method (nothing is caught)
calculate_comprehensive_scores(weights, voice, sentiment, keyword, facial) ==
    LET component_scores == ComponentScores(voice, sentiment, keyword, facial)
        final_scores == _calculate_weighted_scores(component_scores, weights)
    IN  IF IsRaised(component_scores["keyword_matching"])
        THEN component_scores["keyword_matching"]
        ELSE [final_scores |-> final_scores,
              component_scores |-> component_scores,
              component_weights |-> weights,
              recommendations |-> _generate_recommendations(final_scores),
              risk_assessment |-> _assess_risk_level(final_scores),
              confidence_metrics |-> _calculate_overall_confidence(component_scores)]

-----------------------------------------------------------------------------
(* WeightedAssessmentEngine (weighted_assessment_engine.py) *)

\* the component names of component_scores[condition], in the order they are tried
WA_Components == <<"voice", "sentiment", "keyword", "facial">>

\* self.component_weights of WeightedAssessmentEngine
WA_component_weights ==
    [voice_analysis     |-> Rat(40, 100),
     sentiment_analysis |-> Rat(25, 100),
     keyword_analysis   |-> Rat(20, 100),
     facial_analysis    |-> Rat(15, 100)]

\* weight_mapping, built from self.component_weights
WA_weight_mapping ==
    [voice     |-> WA_component_weights.voice_analysis,
     sentiment |-> WA_component_weights.sentiment_analysis,
     keyword   |-> WA_component_weights.keyword_analysis,
     facial    |-> WA_component_weights.facial_analysis]

\* self.severity_thresholds[condition] = upper limits of normal, mild, moderate, severe
WA_severity_thresholds ==
    [c \in CategorySet |->
        CASE c = "depression" -> [normal |-> 9, mild |-> 13, moderate |-> 20, severe |-> 27]
          [] c = "anxiety"    -> [normal |-> 7, mild |-> 9, moderate |-> 14, severe |-> 19]
          [] c = "stress"     -> [normal |-> 14, mild |-> 18, moderate |-> 25, severe |-> 33]]

_convert_sentiment_to_scores(sentiment) ==
    LET negative_score == Get(sentiment, "negative", Zero)
        positive_score == Get(sentiment, "positive", Zero)
        base_score == RatMul(negative_score, Int2Rat(50))
        adjustment == RatMul(positive_score, Int2Rat(10))
    IN  [depression |-> RatMax(Zero, RatSub(base_score, adjustment)),
         anxiety    |-> RatMax(Zero, RatSub(RatMul(base_score, Rat(8, 10)), adjustment)),
         stress     |-> RatMax(Zero, RatSub(RatMul(base_score, Rat(9, 10)), adjustment))]

_convert_keywords_to_scores(keyword) ==
    LET total_words == Get(keyword, "total_words", 1)
        score(k) == RatMin(RatMul(Rat(k, total_words), Int2Rat(200)), Hundred)
    IN  IF total_words = 0 THEN Raised("division by zero")
        ELSE [depression |-> score(Get(keyword, "depression_indicators", 0)),
              anxiety    |-> score(Get(keyword, "anxiety_indicators", 0)),
              stress     |-> score(Get(keyword, "stress_indicators", 0))]

_convert_facial_to_scores(facial) ==
    LET sadness   == Get(facial, "sadness", Zero)
        fear      == Get(facial, "fear", Zero)
        anger     == Get(facial, "anger", Zero)
        happiness == Get(facial, "happiness", Zero)
    IN  [depression |-> RatMin(RatAdd(RatMul(sadness, Int2Rat(80)),
                                      RatMul(RatSub(One, happiness), Int2Rat(20))), Hundred),
         anxiety    |-> RatMin(RatAdd(RatMul(fear, Int2Rat(70)), RatMul(sadness, Int2Rat(30))), Hundred),
         stress     |-> RatMin(RatAdd(RatMul(anger, Int2Rat(60)), RatMul(fear, Int2Rat(40))), Hundred)]

\* component_scores[condition]: the scores of the components that are present
WA_ComponentScores(voice, sentiment, keyword, facial) ==
    [condition \in CategorySet |->
        LET present == {c \in {"voice", "sentiment", "keyword", "facial"} :
                            CASE c = "voice"     -> Truthy(voice) /\ condition \in DOMAIN voice
                              [] c = "sentiment" -> Truthy(sentiment)
                              [] c = "keyword"   -> Truthy(keyword)
                              [] c = "facial"    -> Truthy(facial)}
        IN  [c \in present |->
                CASE c = "voice"     -> Get(voice[condition], "score", Zero)
                  [] c = "sentiment" -> _convert_sentiment_to_scores(sentiment)[condition]
                  [] c = "keyword"   -> _convert_keywords_to_scores(keyword)[condition]
                  [] c = "facial"    -> _convert_facial_to_scores(facial)[condition]]]

WA_score_to_severity(score, condition) ==
    LET thresholds == WA_severity_thresholds[condition]
    IN  IF RatLE(score, Int2Rat(thresholds.normal)) THEN "normal"
        ELSE IF RatLE(score, Int2Rat(thresholds.mild)) THEN "mild"
        ELSE IF RatLE(score, Int2Rat(thresholds.moderate)) THEN "moderate"
        ELSE IF RatLE(score, Int2Rat(thresholds.severe)) THEN "severe"
        ELSE "extremely_severe"

\* sum of f[c] over the set S of keys
RECURSIVE RatSumOver(_, _)
RatSumOver(S, f) ==
    IF S = {} THEN Zero
    ELSE LET c == CHOOSE x \in S : TRUE
         IN  RatAdd(f[c], RatSumOver(S \ {c}, f))

WA_calculate_weighted_scores(component_scores) ==
    LET final(condition) ==
            LET scores == component_scores[condition]
                weighted_sum == RatSumOver(DOMAIN scores,
                                    [c \in DOMAIN scores |-> RatMul(scores[c], WA_weight_mapping[c])])
                condition_weight == RatSumOver(DOMAIN scores, WA_weight_mapping)
            IN  IF RatLT(Zero, condition_weight) THEN RatDiv(weighted_sum, condition_weight) ELSE Zero
    IN  [depression |-> final("depression"),
         anxiety    |-> final("anxiety"),
         stress     |-> final("stress"),
         depression_severity |-> WA_score_to_severity(final("depression"), "depression"),
         anxiety_severity    |-> WA_score_to_severity(final("anxiety"), "anxiety"),
         stress_severity     |-> WA_score_to_severity(final("stress"), "stress")]

\* max(scores, key=scores.get): the first of depression, anxiety, stress with the largest score
_identify_primary_concern(final_scores) ==
    IF RatLE(final_scores.anxiety, final_scores.depression) /\ RatLE(final_scores.stress, final_scores.depression)
    THEN "depression"
    ELSE IF RatLE(final_scores.stress, final_scores.anxiety) THEN "anxiety"
    ELSE "stress"

\* VoiceAnalysisAPI._calculate_overall_risk: the same ladder over a voice
\* summary's scores (a record depression, anxiety, stress)
_calculate_overall_risk(scores) ==
    LET max_score == RatMax(RatMax(scores.depression, scores.anxiety), scores.stress)
        avg_score == RatDiv(RatAdd(RatAdd(scores.depression, scores.anxiety), scores.stress),
                            Int2Rat(3))
    IN  IF RatLE(Int2Rat(50), max_score) \/ RatLE(Int2Rat(35), avg_score) THEN "high"
        ELSE IF RatLE(Int2Rat(25), max_score) \/ RatLE(Int2Rat(20), avg_score) THEN "moderate"
        ELSE IF RatLE(Int2Rat(15), max_score) \/ RatLE(Int2Rat(10), avg_score) THEN "low"
        ELSE "minimal"

\* a risk assessment that looks at the largest score only
_assess_overall_risk_MaxOnly(final_scores) ==
    LET max_score == RatMax(RatMax(final_scores.depression, final_scores.anxiety), final_scores.stress)
        avg_score == RatDiv(RatAdd(RatAdd(final_scores.depression, final_scores.anxiety),
                                   final_scores.stress), Int2Rat(3))
        risk_level ==
            IF RatLE(Int2Rat(50), max_score) THEN "high"
            ELSE IF RatLE(Int2Rat(25), max_score) THEN "moderate"
            ELSE IF RatLE(Int2Rat(15), max_score) THEN "low"
            ELSE "minimal"
    IN  [overall_risk |-> risk_level,
         max_score |-> max_score,
         average_score |-> avg_score,
         primary_concern |-> _identify_primary_concern(final_scores)]

_assess_overall_risk(final_scores) ==
    LET max_score == RatMax(RatMax(final_scores.depression, final_scores.anxiety), final_scores.stress)
        avg_score == RatDiv(RatAdd(RatAdd(final_scores.depression, final_scores.anxiety),
                                   final_scores.stress), Int2Rat(3))
        risk_level ==
            IF RatLE(Int2Rat(50), max_score) \/ RatLE(Int2Rat(35), avg_score) THEN "high"
            ELSE IF RatLE(Int2Rat(25), max_score) \/ RatLE(Int2Rat(20), avg_score) THEN "moderate"
            ELSE IF RatLE(Int2Rat(15), max_score) \/ RatLE(Int2Rat(10), avg_score) THEN "low"
            ELSE "minimal"
    IN  [overall_risk |-> risk_level,
         max_score |-> max_score,
         average_score |-> avg_score,
         primary_concern |-> _identify_primary_concern(final_scores)]

_assess_quality(component_scores) ==
    LET total_components == Len(WA_Components)
        available_components == Cardinality(DOMAIN component_scores["depression"])
        quality ==
            IF 4 * available_components >= 3 * total_components THEN "high"
            ELSE IF 2 * available_components >= total_components THEN "moderate"
            ELSE IF 4 * available_components >= total_components THEN "low"
            ELSE "insufficient"
    IN  [completeness |-> Rat(available_components, total_components),
         quality |-> quality,
         available_components |-> available_components,
         total_components |-> total_components]

\* the whole body runs inside try/except Exception: an exception becomes {'error': str(e)}
WA_calculate_comprehensive_scores(voice, sentiment, keyword, facial) ==
    IF Truthy(keyword) /\ IsRaised(_convert_keywords_to_scores(keyword))
    THEN [error |-> _convert_keywords_to_scores(keyword).raised]
    ELSE
        LET component_scores == WA_ComponentScores(voice, sentiment, keyword, facial)
            final_scores == WA_calculate_weighted_scores(component_scores)
        IN  [final_scores |-> final_scores,
             component_scores |-> component_scores,
             component_weights |-> WA_component_weights,
             risk_assessment |-> _assess_overall_risk(final_scores),
             assessment_quality |-> _assess_quality(component_scores)]

-----------------------------------------------------------------------------
(* The inputs the fusion engines are called with *)

\* probabilities and confidences are multiples of 1/ProbDen
ProbDen == 10

Prob(k) == Rat(k, ProbDen)

\* a voice result {'depression': {'score', 'confidence'}, 'anxiety': {'score'}, 'stress': {'score'}}
Voice(dep, anx, str, conf) ==
    [depression |-> [score |-> dep, confidence |-> conf],
     anxiety    |-> [score |-> anx],
     stress     |-> [score |-> str]]

\* the same without a confidence entry (the normalizer then takes 0.5)
VoiceNoConfidence(dep, anx, str) ==
    [depression |-> [score |-> dep], anxiety |-> [score |-> anx], stress |-> [score |-> str]]

Sentiment(neg, neu, pos) == [negative |-> Prob(neg), neutral |-> Prob(neu), positive |-> Prob(pos)]

Keyword(dep, anx, str, total) ==
    [depression_indicators |-> dep, anxiety_indicators |-> anx,
     stress_indicators |-> str, total_words |-> total]

KeywordNoTotal(dep, anx, str) ==
    [depression_indicators |-> dep, anxiety_indicators |-> anx, stress_indicators |-> str]

Facial(sad, fear, anger, happy) ==
    [sadness |-> Prob(sad), fear |-> Prob(fear), anger |-> Prob(anger), happiness |-> Prob(happy)]

\* upstream voice scores: below 0, between two integer band limits, with more
\* than two decimals, above 100
VoiceScoreValues ==
    {Int2Rat(-5), Zero, Rat(19, 2), Rat(13257, 1000), Int2Rat(30), Int2Rat(80), Int2Rat(120)}

VoiceConfidenceValues == {Zero, Rat(9, 10), One}

RichVoice ==
    {Voice(d, a, s, c) : d \in VoiceScoreValues, a \in VoiceScoreValues,
                         s \in VoiceScoreValues, c \in VoiceConfidenceValues}
    \cup {VoiceNoConfidence(d, a, s) : d \in VoiceScoreValues, a \in VoiceScoreValues,
                                       s \in VoiceScoreValues}

\* every distribution over (negative, neutral, positive), the all-zero result,
\* and a result holding only the negative probability
RichSentiment ==
    {Sentiment(t[1], t[2], ProbDen - t[1] - t[2]) :
        t \in {u \in (0..ProbDen) \X (0..ProbDen) : u[1] + u[2] <= ProbDen}}
    \cup {Sentiment(0, 0, 0), [negative |-> Prob(ProbDen - 1)]}

KeywordCountValues == {0, 1, 4, 12}

RichKeyword ==
    {Keyword(d, a, s, t) : d \in KeywordCountValues, a \in KeywordCountValues,
                           s \in KeywordCountValues, t \in {0, 7, 50}}
    \cup {KeywordNoTotal(d, a, s) : d \in KeywordCountValues, a \in KeywordCountValues,
                                    s \in KeywordCountValues}

FacialProbValues == {0, 3, 7, ProbDen}

RichFacial ==
    {Facial(s, f, a, h) : s \in FacialProbValues, f \in FacialProbValues,
                          a \in FacialProbValues, h \in FacialProbValues}

\* a few results of each modality, combined in every way
FewVoice ==
    {None, EmptyDict,
     Voice(Int2Rat(80), Int2Rat(10), Int2Rat(30), Rat(9, 10)),
     Voice(Int2Rat(80), Int2Rat(10), Int2Rat(30), Zero),
     VoiceNoConfidence(Int2Rat(-5), Int2Rat(120), Rat(13257, 1000))}

FewSentiment == {None, Sentiment(ProbDen - 1, 1, 0), Sentiment(0, 0, 0), Sentiment(2, 3, ProbDen - 5)}

FewKeyword == {None, Keyword(1, 0, 2, 7), Keyword(0, 0, 0, 50), Keyword(4, 4, 4, 50), Keyword(0, 0, 0, 0)}

FewFacial == {None, Facial(0, 0, 0, 0), Facial(7, 3, 0, 0), Facial(0, 0, 0, ProbDen)}

Request(v, s, k, f) == [voice |-> v, sentiment |-> s, keyword |-> k, facial |-> f]

Requests ==
    {Request(v, s, k, f) : v \in FewVoice, s \in FewSentiment, k \in FewKeyword, f \in FewFacial}
    \cup {Request(v, None, None, None) : v \in RichVoice}
    \cup {Request(None, s, None, None) : s \in RichSentiment}
    \cup {Request(None, None, k, None) : k \in RichKeyword}
    \cup {Request(None, None, None, f) : f \in RichFacial}

-----------------------------------------------------------------------------
(* The fusion engines as a state machine: one request, drawn at the start,
   is handed to each engine once *)

Init ==
    /\ component_weights = InitialComponentWeights
    /\ \E r \in Requests :
        /\ voice_results = r.voice
        /\ sentiment_results = r.sentiment
        /\ keyword_results = r.keyword
        /\ facial_results = r.facial
    /\ report = NotCalled
    /\ wa_report = NotCalled
    /\ dass21_scorer = DASS21ScoringService
    /\ responses = << >>
    /\ dass_result = NotCalled
    /\ http_response = NotCalled
    /\ questionnaire_responses = << >>
    /\ facial_image_data = None
    /\ assessment = NotCalled
    /\ classifier_score = Zero
    /\ classifier_category = "depression"
    /\ classifier_bands = NotCalled
    /\ WebcamIdle
    /\ ControllerIdle
    /\ AnalyzerIdle

\* WeightedAIAssessmentEngine.calculate_comprehensive_scores
CalculateComprehensiveScores ==
    /\ report = NotCalled
    /\ report' = calculate_comprehensive_scores(component_weights, voice_results,
                     sentiment_results, keyword_results, facial_results)
    /\ UNCHANGED <<component_weights, voice_results, sentiment_results, keyword_results,
                   facial_results, wa_report, dass_vars, assessment_vars,
                   classifier_vars,
                   webcam_vars, controller_vars, analyzer_vars>>

\* WeightedAssessmentEngine.calculate_comprehensive_scores
WACalculateComprehensiveScores ==
    /\ wa_report = NotCalled
    /\ wa_report' = WA_calculate_comprehensive_scores(voice_results, sentiment_results,
                        keyword_results, facial_results)
    /\ UNCHANGED <<component_weights, voice_results, sentiment_results, keyword_results,
                   facial_results, report, dass_vars, assessment_vars,
                   classifier_vars,
                   webcam_vars, controller_vars, analyzer_vars>>

Next == CalculateComprehensiveScores \/ WACalculateComprehensiveScores

Spec == Init /\ [][Next]_vars

-----------------------------------------------------------------------------
(* Properties of the fusion engine *)

\* calculate_comprehensive_scores has returned a report (it did not raise)
Returned == report # NotCalled /\ ~IsRaised(report)

WAReturned == wa_report # NotCalled /\ "error" \notin DOMAIN wa_report

\* the raw result handed in for a component
InputOf(c) ==
    CASE c = "voice_analysis"     -> voice_results
      [] c = "sentiment_analysis" -> sentiment_results
      [] c = "keyword_matching"   -> keyword_results
      [] c = "facial_analysis"    -> facial_results

\* the components whose normalized score has a confidence above 0
Contributing == {c \in ComponentSet : RatLT(Zero, report.component_scores[c].confidence)}

\* sum over the four modalities of f[component] * weight * confidence
WeightedSum(f) ==
    LET term(c) == RatMul(f[c], RatMul(component_weights[c],
                                       report.component_scores[c].confidence))
    IN  RatAdd(RatAdd(term("voice_analysis"), term("sentiment_analysis")),
               RatAdd(term("keyword_matching"), term("facial_analysis")))

UnitScore == [c \in ComponentSet |-> One]

\* C1: each fused score is sum(score.d * weight * confidence) / sum(weight * confidence)
\* over the four modalities, rounded to 2 decimals (a multiple of 0.01 at most
\* 0.005 away from the quotient), and is 0 when the denominator is 0.
C1_WeightedAverage ==
    Returned =>
        LET denominator == WeightedSum(UnitScore)
        IN  \A d \in CategorySet :
                LET score == [c \in ComponentSet |-> report.component_scores[c][d]]
                    fused == report.final_scores[d]
                IN  IF denominator = Zero THEN fused = Zero
                    ELSE /\ 100 % fused.d = 0
                         /\ RatLE(RatAbs(RatSub(fused, RatDiv(WeightedSum(score), denominator))),
                                  Rat(1, 200))

\* C1 witness: two modalities with different depression scores and different
\* positive confidences were fused into a value strictly between them.
C1_Witness ==
    /\ Returned
    /\ \E c1 \in Contributing, c2 \in Contributing :
        /\ report.component_scores[c1].confidence # report.component_scores[c2].confidence
        /\ RatLT(report.component_scores[c1].depression, report.final_scores.depression)
        /\ RatLT(report.final_scores.depression, report.component_scores[c2].depression)

\* the same call with the result of component c left out
ReportWithout(c) ==
    calculate_comprehensive_scores(component_weights,
        IF c = "voice_analysis" THEN None ELSE voice_results,
        IF c = "sentiment_analysis" THEN None ELSE sentiment_results,
        IF c = "keyword_matching" THEN None ELSE keyword_results,
        IF c = "facial_analysis" THEN None ELSE facial_results)

\* C2: a modality that is present with confidence 0 leaves every fused score,
\* severity and the risk assessment as they are when that modality is omitted.
C2_ZeroConfidenceNoInfluence ==
    Returned =>
        \A c \in ComponentSet :
            (Truthy(InputOf(c)) /\ report.component_scores[c].confidence = Zero) =>
                /\ ReportWithout(c).final_scores = report.final_scores
                /\ ReportWithout(c).risk_assessment = report.risk_assessment

\* C2 witness: a present modality with confidence 0 and a nonzero depression
\* score was fused with a modality of positive confidence and another score.
C2_Witness ==
    /\ Returned
    /\ \E c \in ComponentSet, c2 \in Contributing :
        /\ Truthy(InputOf(c))
        /\ report.component_scores[c].confidence = Zero
        /\ report.component_scores[c].depression # Zero
        /\ report.component_scores[c2].depression # report.component_scores[c].depression

\* C3 as claimed: with exactly one contributing modality every fused score
\* equals that modality's own score.
C3_SoleModalityExact ==
    (Returned /\ Cardinality(Contributing) = 1) =>
        \A c \in Contributing, d \in CategorySet :
            report.final_scores[d] = report.component_scores[c][d]

\* C3 amended: with exactly one contributing modality every fused score equals
\* that modality's own score rounded to 2 decimals, whatever its confidence
\* and weight.
C3_SoleModalityRounded ==
    (Returned /\ Cardinality(Contributing) = 1) =>
        \A c \in Contributing, d \in CategorySet :
            report.final_scores[d] = Round2(report.component_scores[c][d])

\* C3 witness: only voice, depression 80, anxiety 10, stress 30, confidence 0.9.
C3_Witness ==
    /\ Returned
    /\ voice_results = Voice(Int2Rat(80), Int2Rat(10), Int2Rat(30), Rat(9, 10))
    /\ Contributing = {"voice_analysis"}
    /\ report.final_scores.depression = Int2Rat(80)
    /\ report.final_scores.anxiety = Int2Rat(10)
    /\ report.final_scores.stress = Int2Rat(30)

\* the bands of the fusion engine's threshold table that contain the score
BandsContaining(score, category) ==
    {s \in SeveritySet :
        /\ RatLE(Int2Rat(severity_thresholds[category][s][1]), score)
        /\ RatLE(score, Int2Rat(severity_thresholds[category][s][2]))}

\* C5 as claimed: every fused score in 0..100, integer or not, is classified
\* as the one band of the threshold table that contains it; none falls
\* through to the default.
C5_SeverityTotal ==
    Returned =>
        \A d \in CategorySet :
            (RatLE(Zero, report.final_scores[d]) /\ RatLE(report.final_scores[d], Hundred)) =>
                BandsContaining(report.final_scores[d], d) = {SeverityOf(report.final_scores, d)}

\* only a sentiment result is handed in, and negative is its strictly largest probability
OnlyNegativeSentiment ==
    /\ ~Truthy(voice_results) /\ ~Truthy(keyword_results) /\ ~Truthy(facial_results)
    /\ Truthy(sentiment_results)
    /\ RatLT(Get(sentiment_results, "neutral", Zero), Get(sentiment_results, "negative", Zero))
    /\ RatLT(Get(sentiment_results, "positive", Zero), Get(sentiment_results, "negative", Zero))

\* C10 as claimed: the scores derived from a negative sentiment result are
\* nonzero and ordered depression >= anxiety >= stress.
C10_NegativeSentimentOrdered ==
    (Returned /\ OnlyNegativeSentiment) =>
        LET scores == report.component_scores["sentiment_analysis"]
        IN  /\ scores.depression # Zero /\ scores.anxiety # Zero /\ scores.stress # Zero
            /\ RatLE(scores.anxiety, scores.depression)
            /\ RatLE(scores.stress, scores.anxiety)

\* C10 amended: the scores derived from a negative sentiment result are all
\* above zero; in WeightedAIAssessmentEngine anxiety and stress both exceed
\* depression, in WeightedAssessmentEngine depression >= stress >= anxiety.
C10_NegativeSentimentNonzero ==
    /\ (Returned /\ OnlyNegativeSentiment) =>
            LET scores == report.component_scores["sentiment_analysis"]
            IN  /\ RatLT(Zero, scores.depression)
                /\ RatLT(scores.depression, scores.anxiety)
                /\ RatLT(scores.depression, scores.stress)
    /\ (WAReturned /\ OnlyNegativeSentiment) =>
            LET scores == [d \in CategorySet |-> wa_report.component_scores[d]["sentiment"]]
            IN  /\ RatLT(Zero, scores["anxiety"])
                /\ RatLE(scores["anxiety"], scores["stress"])
                /\ RatLE(scores["stress"], scores["depression"])

\* C10 witness: both engines have scored the sentiment-only request with
\* negative 0.9, neutral 0.1, positive 0.
C10_Witness ==
    /\ Returned /\ WAReturned
    /\ OnlyNegativeSentiment
    /\ sentiment_results.negative = Rat(9, 10)
    /\ sentiment_results.neutral = Rat(1, 10)
    /\ report.component_scores["sentiment_analysis"].depression = Int2Rat(72)
    /\ report.component_scores["sentiment_analysis"].anxiety = Int2Rat(81)
    /\ report.component_scores["sentiment_analysis"].stress = Int2Rat(84)

-----------------------------------------------------------------------------
(* DASS21ScoringService (services/dass21_scoring_service.py) *)

\* self.total_questions
total_questions == 20

\* QUESTION_MAPPING[question_index] = (subscale, weight), question_index in 0..19
QUESTION_MAPPING ==
    [question_idx \in 0..19 |->
        CASE question_idx \in {0, 3, 6, 9, 12, 15, 18}  -> <<"depression", 1>>
          [] question_idx \in {1, 4, 7, 10, 13, 16, 19} -> <<"anxiety", 1>>
          [] question_idx \in {2, 5, 8, 11, 14, 17}     -> <<"stress", 1>>]

\* SEVERITY_THRESHOLDS[subscale][severity] = <<min_val, max_val>>
SEVERITY_THRESHOLDS ==
    [c \in CategorySet |->
        CASE c = "depression" ->
                [s \in SeveritySet |->
                    CASE s = "normal" -> <<0, 9>>
                      [] s = "mild" -> <<10, 13>>
                      [] s = "moderate" -> <<14, 20>>
                      [] s = "severe" -> <<21, 27>>
                      [] s = "extremely_severe" -> <<28, 42>>]
          [] c = "anxiety" ->
                [s \in SeveritySet |->
                    CASE s = "normal" -> <<0, 7>>
                      [] s = "mild" -> <<8, 9>>
                      [] s = "moderate" -> <<10, 14>>
                      [] s = "severe" -> <<15, 19>>
                      [] s = "extremely_severe" -> <<20, 42>>]
          [] c = "stress" ->
                [s \in SeveritySet |->
                    CASE s = "normal" -> <<0, 14>>
                      [] s = "mild" -> <<15, 18>>
                      [] s = "moderate" -> <<19, 25>>
                      [] s = "severe" -> <<26, 33>>
                      [] s = "extremely_severe" -> <<34, 42>>]]

\* a response is a number (a rational) or some other object, here a string
NotANumber == [py_str |-> "three"]

\* isinstance(response, (int, float))
IsNumber(response) == DOMAIN response = {"n", "d"}

\* isinstance(response, int)
IsInt(response) == IsNumber(response) /\ response.d = 1

\* not isinstance(response, (int, float)) or response < 0 or response > 3
InvalidResponse(response) ==
    \/ ~IsNumber(response)
    \/ RatLT(response, Zero)
    \/ RatLT(Int2Rat(3), response)

\* the sum of responses[question_idx] * weight over the questions of the subscale
RECURSIVE SubscaleSum(_, _, _)
SubscaleSum(resp, subscale, question_idx) ==
    IF question_idx >= total_questions THEN Zero
    ELSE RatAdd(IF QUESTION_MAPPING[question_idx][1] = subscale
                THEN RatMul(resp[question_idx + 1], Int2Rat(QUESTION_MAPPING[question_idx][2]))
                ELSE Zero,
                SubscaleSum(resp, subscale, question_idx + 1))

\* mutant: the sum of the answers without the multiplier 2
_calculate_subscale_score_NoMultiplier(resp, subscale) ==
    SubscaleSum(resp, subscale, 0)

_calculate_subscale_score(resp, subscale) ==
    LET score == SubscaleSum(resp, subscale, 0)
        count == Cardinality({q \in DOMAIN QUESTION_MAPPING : QUESTION_MAPPING[q][1] = subscale})
    IN  IF count > 0 THEN RatMul(score, Int2Rat(2)) ELSE Zero

\* mutant: the lower limit of a band taken as exclusive
_get_severity_ExclusiveMin(score, subscale) ==
    LET thresholds == SEVERITY_THRESHOLDS[subscale]
        matching == {i \in 1..Len(severity_levels) :
                        /\ RatLT(Int2Rat(thresholds[severity_levels[i]][1]), score)
                        /\ RatLE(score, Int2Rat(thresholds[severity_levels[i]][2]))}
    IN  IF matching # {} THEN severity_levels[SetMin(matching)] ELSE "extremely_severe"

\* the first severity, in dict order, whose (min_val, max_val) contains the
\* score; 'extremely_severe' when the loop ends without a match
_get_severity(score, subscale) ==
    LET thresholds == SEVERITY_THRESHOLDS[subscale]
        matching == {i \in 1..Len(severity_levels) :
                        /\ RatLE(Int2Rat(thresholds[severity_levels[i]][1]), score)
                        /\ RatLE(score, Int2Rat(thresholds[severity_levels[i]][2]))}
    IN  IF matching # {} THEN severity_levels[SetMin(matching)] ELSE "extremely_severe"

_get_overall_severity(overall_score) ==
    IF RatLE(overall_score, Int2Rat(10)) THEN "normal"
    ELSE IF RatLE(overall_score, Int2Rat(13)) THEN "mild"
    ELSE IF RatLE(overall_score, Int2Rat(20)) THEN "moderate"
    ELSE IF RatLE(overall_score, Int2Rat(27)) THEN "severe"
    ELSE "extremely_severe"

_get_interpretation(depression, anxiety, stress) ==
    LET highest == RatMax(RatMax(depression, anxiety), stress)
    IN  IF RatLE(highest, Int2Rat(9)) THEN "within normal range"
        ELSE IF RatLE(highest, Int2Rat(13)) THEN "mild symptoms"
        ELSE IF RatLE(highest, Int2Rat(20)) THEN "moderate symptoms"
        ELSE IF RatLE(highest, Int2Rat(27)) THEN "severe symptoms"
        ELSE "extremely severe symptoms"

_get_recommendations(depression, anxiety, stress) ==
    LET recommendations ==
            (IF RatLT(Int2Rat(13), depression)
             THEN <<"Consider speaking with a mental health professional about depression symptoms",
                    "Engage in regular physical activity and maintain social connections">>
             ELSE << >>)
            \o (IF RatLT(Int2Rat(9), anxiety)
                THEN <<"Practice relaxation techniques such as deep breathing or meditation",
                       "Limit caffeine intake and maintain regular sleep schedule">>
                ELSE << >>)
            \o (IF RatLT(Int2Rat(18), stress)
                THEN <<"Identify and address major sources of stress in your life",
                       "Practice time management and set realistic goals">>
                ELSE << >>)
    IN  IF recommendations = << >>
        THEN <<"Maintain your current healthy lifestyle and coping strategies",
               "Continue regular self-care and stress management practices">>
        ELSE recommendations

\* round(x, 1)
Round1(x) == Rat(RoundHalfEven(10 * x.n, x.d), 10)

\* round((score / 42) * 100, 1)
Percentage(score) == Round1(RatMul(RatDiv(score, Int2Rat(42)), Hundred))

\* the result dict, or the ValueError that leaves the method
score_assessment(resp) ==
    IF Len(resp) # total_questions
    THEN [raised |-> "ValueError", message |-> <<"Expected responses, got", total_questions, Len(resp)>>]
    ELSE IF \E i \in 1..Len(resp) : InvalidResponse(resp[i])
    THEN LET i == SetMin({j \in 1..Len(resp) : InvalidResponse(resp[j])})
         IN  [raised |-> "ValueError", message |-> <<"Response must be between 0-3, got", i - 1, resp[i]>>]
    ELSE
        LET depression_score == _calculate_subscale_score(resp, "depression")
            anxiety_score    == _calculate_subscale_score(resp, "anxiety")
            stress_score     == _calculate_subscale_score(resp, "stress")
            overall_score == RatDiv(RatAdd(RatAdd(depression_score, anxiety_score), stress_score),
                                    Int2Rat(3))
        IN  [depression |-> [score |-> Truncate(depression_score),
                             severity |-> _get_severity(depression_score, "depression"),
                             percentage |-> Percentage(depression_score)],
             anxiety    |-> [score |-> Truncate(anxiety_score),
                             severity |-> _get_severity(anxiety_score, "anxiety"),
                             percentage |-> Percentage(anxiety_score)],
             stress     |-> [score |-> Truncate(stress_score),
                             severity |-> _get_severity(stress_score, "stress"),
                             percentage |-> Percentage(stress_score)],
             overall    |-> [score |-> Round1(overall_score),
                             severity |-> _get_overall_severity(overall_score),
                             percentage |-> Percentage(overall_score)],
             interpretation |-> _get_interpretation(depression_score, anxiety_score, stress_score),
             recommendations |-> _get_recommendations(depression_score, anxiety_score, stress_score)]

\* POST /score/dass21 with a body that passed the request model (responses: List[int]).
\* The HTTPException(503) is raised inside the try block and is caught by
\* `except Exception`, which answers 500.
score_dass21(scorer, resp) ==
    IF scorer = None
    THEN [status_code |-> 500,
          detail |-> <<"DASS-21 scoring failed:", "DASS-21 scoring service not available">>]
    ELSE LET result == score_assessment(resp)
         IN  IF IsRaised(result)
             THEN [status_code |-> 400, detail |-> <<"Invalid request:", result.message>>]
             ELSE [status_code |-> 200, success |-> TRUE, data |-> result]

-----------------------------------------------------------------------------
(* The inputs the DASS-21 scorer is called with *)

\* lists shorter or longer than 20 by up to LenSlack are tried
LenSlack == 1

\* a response put in place of one answer: the valid answers, a value below 0,
\* a value above 3, a number that is no integer, an object that is no number
OverrideValues ==
    {Int2Rat(0), Int2Rat(1), Int2Rat(2), Int2Rat(3), Int2Rat(-1), Int2Rat(4), Rat(3, 2), NotANumber}

\* every question of a subscale answered with that subscale's value
UniformBySubscale(dep, anx, str) ==
    [i \in 1..total_questions |->
        CASE QUESTION_MAPPING[i - 1][1] = "depression" -> Int2Rat(dep)
          [] QUESTION_MAPPING[i - 1][1] = "anxiety"    -> Int2Rat(anx)
          [] QUESTION_MAPPING[i - 1][1] = "stress"     -> Int2Rat(str)]

UniformLists == {UniformBySubscale(d, a, s) : d \in 0..3, a \in 0..3, s \in 0..3}

\* the list cut to length n, or filled up to length n with 0
Resize(resp, n) ==
    [i \in 1..n |-> IF i <= Len(resp) THEN resp[i] ELSE Int2Rat(0)]

ResponseLists ==
    UniformLists
    \cup {[u EXCEPT ![p] = v] : u \in UniformLists, p \in 1..total_questions, v \in OverrideValues}
    \cup {Resize(u, n) : u \in UniformLists,
                         n \in (total_questions - LenSlack)..(total_questions + LenSlack)}

-----------------------------------------------------------------------------
(* The DASS-21 scorer as a state machine: one list of responses, drawn at
   the start, is scored by a direct call and through the endpoint *)

InitDASS ==
    /\ component_weights = InitialComponentWeights
    /\ voice_results = None
    /\ sentiment_results = None
    /\ keyword_results = None
    /\ facial_results = None
    /\ report = NotCalled
    /\ wa_report = NotCalled
    /\ dass21_scorer \in {DASS21ScoringService, None}
    /\ responses \in ResponseLists
    /\ dass_result = NotCalled
    /\ http_response = NotCalled
    /\ questionnaire_responses = << >>
    /\ facial_image_data = None
    /\ assessment = NotCalled
    /\ classifier_score = Zero
    /\ classifier_category = "depression"
    /\ classifier_bands = NotCalled
    /\ WebcamIdle
    /\ ControllerIdle
    /\ AnalyzerIdle

\* DASS21ScoringService.score_assessment(responses), called directly
ScoreAssessment ==
    /\ dass_result = NotCalled
    /\ dass_result' = score_assessment(responses)
    /\ UNCHANGED <<fusion_vars, dass21_scorer, responses, http_response, assessment_vars,
                   classifier_vars,
                   webcam_vars, controller_vars, analyzer_vars>>

\* POST /score/dass21; the request model lets only lists of integers through
ScoreDass21 ==
    /\ http_response = NotCalled
    /\ \A i \in 1..Len(responses) : IsInt(responses[i])
    /\ http_response' = score_dass21(dass21_scorer, responses)
    /\ UNCHANGED <<fusion_vars, dass21_scorer, responses, dass_result, assessment_vars,
                   classifier_vars,
                   webcam_vars, controller_vars, analyzer_vars>>

NextDASS == ScoreAssessment \/ ScoreDass21

SpecDASS == InitDASS /\ [][NextDASS]_vars

-----------------------------------------------------------------------------
(* Properties of the DASS-21 scorer *)

\* score_assessment has returned a result (it did not raise)
DassReturned == dass_result # NotCalled /\ ~IsRaised(dass_result)

\* exactly 20 responses, each one of the integers 0, 1, 2, 3
ValidResponses ==
    /\ Len(responses) = 20
    /\ \A i \in 1..Len(responses) : responses[i] \in {Int2Rat(v) : v \in 0..3}

\* the score entry of a subscale in the result
DassScore(subscale) == dass_result[subscale].score

\* C4 as claimed: every fused score returned by calculate_comprehensive_scores
\* lies in [0, 100], also for upstream scores outside 0..100, and every
\* subscale score returned by score_assessment lies in [0, 42].
C4_ScoresInRange ==
    /\ Returned =>
        \A d \in CategorySet :
            RatLE(Zero, report.final_scores[d]) /\ RatLE(report.final_scores[d], Hundred)
    /\ DassReturned =>
        \A d \in CategorySet : 0 <= DassScore(d) /\ DassScore(d) <= 42

\* C6 as claimed: score_assessment returns a result only for 20 responses that
\* are each one of the integers 0..3 and raises for every other input, and
\* the endpoint answers an input that is not valid with 400.
C6_OnlyValidInputScored ==
    /\ dass_result # NotCalled => (IsRaised(dass_result) <=> ~ValidResponses)
    /\ (http_response # NotCalled /\ dass21_scorer # None /\ ~ValidResponses) =>
            http_response.status_code = 400

\* every question of the subscale is answered 3
AllThreeIn(subscale) ==
    \A i \in 1..Len(responses) :
        QUESTION_MAPPING[i - 1][1] = subscale => responses[i] = Int2Rat(3)

\* C7 as claimed: over the valid inputs each subscale score is at most 42, and
\* is 42 when every question of that subscale is answered 3.
C7_SubscaleMaximum42 ==
    (DassReturned /\ ValidResponses) =>
        \A d \in CategorySet :
            /\ DassScore(d) <= 42
            /\ AllThreeIn(d) => DassScore(d) = 42

AllThrees == responses = UniformBySubscale(3, 3, 3)

AllZeros == responses = UniformBySubscale(0, 0, 0)

-----------------------------------------------------------------------------
(* Properties of the risk assessor of WeightedAIAssessmentEngine *)

\* the severities of the three domains in the returned report
ReportSeverities == {SeverityOf(report.final_scores, c) : c \in CategorySet}

\* the worst of a set of severities, by its position in normal .. extremely_severe
WorstSeverity(S) ==
    CHOOSE s \in S : \A t \in S : SeverityIndex(t) <= SeverityIndex(s)

\* the severity -> risk table as the risk policy states it
StatedRiskTable ==
    [s \in SeveritySet |->
        CASE s \in {"normal", "mild"}   -> "low"
          [] s = "moderate"             -> "medium"
          [] s = "severe"               -> "high"
          [] s = "extremely_severe"     -> "critical"]

\* C11: the risk assessor reports the worst of the three domain severities as
\* highest_severity, maps it through normal->low, mild->low, moderate->medium,
\* severe->high, extremely_severe->critical to overall_risk, and sets
\* requires_attention exactly when the risk is medium, high or critical.
C11_WorstSeverityRisk ==
    Returned =>
        LET risk == report.risk_assessment
        IN  /\ risk.highest_severity = WorstSeverity(ReportSeverities)
            /\ risk.overall_risk = StatedRiskTable[WorstSeverity(ReportSeverities)]
            /\ risk.requires_attention <=> risk.overall_risk \in {"medium", "high", "critical"}

\* C11 witness: a report whose domains differ in severity, the worst being
\* severe, so that the risk is high and attention is required.
C11_Witness ==
    /\ Returned
    /\ Cardinality(ReportSeverities) >= 2
    /\ WorstSeverity(ReportSeverities) = "severe"
    /\ report.risk_assessment.overall_risk = "high"
    /\ report.risk_assessment.requires_attention

\* C11 witness for the low end: the worst severity is mild, the risk is low
\* and no attention is required.
C11_WitnessMild ==
    /\ Returned
    /\ WorstSeverity(ReportSeverities) = "mild"
    /\ report.risk_assessment.overall_risk = "low"
    /\ ~report.risk_assessment.requires_attention

-----------------------------------------------------------------------------
(* The mean of the domain scores in the risk assessors *)

\* the three domain scores of a final_scores dict
DomainScores(final_scores) ==
    [depression |-> final_scores.depression,
     anxiety    |-> final_scores.anxiety,
     stress     |-> final_scores.stress]

\* arithmetic mean of the three domain scores
MeanScore(final_scores) ==
    RatDiv(RatAdd(RatAdd(final_scores.depression, final_scores.anxiety), final_scores.stress),
           Int2Rat(3))

\* largest of the three domain scores
MaxScore(final_scores) ==
    RatMax(RatMax(final_scores.depression, final_scores.anxiety), final_scores.stress)

\* position of a risk level of WeightedAIAssessmentEngine
RiskRank(risk) ==
    CASE risk = "low" -> 1 [] risk = "medium" -> 2 [] risk = "high" -> 3 [] risk = "critical" -> 4

\* position of a risk level of WeightedAssessmentEngine
WARiskRank(risk) ==
    CASE risk = "minimal" -> 0 [] risk = "low" -> 1 [] risk = "moderate" -> 2 [] risk = "high" -> 3

\* the level the mean alone calls for: 35 -> high, 20 -> moderate, 10 -> low
MeanLevel(mean) ==
    IF RatLE(Int2Rat(35), mean) THEN 3
    ELSE IF RatLE(Int2Rat(20), mean) THEN 2
    ELSE IF RatLE(Int2Rat(10), mean) THEN 1
    ELSE 0

\* the level the largest score alone calls for: 50 -> high, 25 -> moderate, 15 -> low
MaxLevel(max) ==
    IF RatLE(Int2Rat(50), max) THEN 3
    ELSE IF RatLE(Int2Rat(25), max) THEN 2
    ELSE IF RatLE(Int2Rat(15), max) THEN 1
    ELSE 0

\* final_scores dicts over a grid of domain scores, classified as the engine does
GridScores == {0, 5, 10, 12, 14, 20, 25, 40}

GridFinalScores ==
    {[depression |-> Int2Rat(d), anxiety |-> Int2Rat(a), stress |-> Int2Rat(s),
      depression_severity |-> _score_to_severity(Int2Rat(d), "depression"),
      anxiety_severity    |-> _score_to_severity(Int2Rat(a), "anxiety"),
      stress_severity     |-> _score_to_severity(Int2Rat(s), "stress")] :
        d \in GridScores, a \in GridScores, s \in GridScores}

-----------------------------------------------------------------------------
(* Missing modalities *)

\* the modalities whose raw output is None or empty
Missing == {c \in ComponentSet : ~Truthy(InputOf(c))}

\* C13: a modality whose raw output is missing or empty is normalized to
\* depression = anxiety = stress = 0 with confidence 0 and raises nothing (an
\* exception can only come from a modality that is present); with all four
\* modalities missing the call returns fused scores 0, overall_confidence 0
\* and component_count 0.
C13_MissingModalityIsZero ==
    /\ (report # NotCalled /\ IsRaised(report)) => Missing # ComponentSet /\ Truthy(keyword_results)
    /\ Returned =>
          \A c \in Missing :
              /\ \A d \in CategorySet : report.component_scores[c][d] = Zero
              /\ report.component_scores[c].confidence = Zero
    /\ (report # NotCalled /\ Missing = ComponentSet) =>
          /\ Returned
          /\ \A d \in CategorySet : report.final_scores[d] = Zero
          /\ report.confidence_metrics.overall_confidence = Zero
          /\ report.confidence_metrics.component_count = 0

\* C13 witness: the engine was called with all four modalities missing and
\* has returned its report.
C13_Witness ==
    /\ Returned
    /\ Missing = ComponentSet
    /\ report.confidence_metrics.component_count = 0

\* C13 witness for a single missing modality: one is missing while another
\* contributes a nonzero depression score.
C13_WitnessOneMissing ==
    /\ Returned
    /\ Missing # {} /\ Missing # ComponentSet
    /\ \E c \in Contributing : report.component_scores[c].depression # Zero

-----------------------------------------------------------------------------
(* Errors inside the fusion engines *)

\* the keyword result carries total_words = 0
ZeroTotalWords ==
    Truthy(keyword_results) /\ Get(keyword_results, "total_words", 1) = 0

\* C14: calculate_comprehensive_scores never raises to its caller, also for a
\* keyword result whose total_words is 0: an internal error comes back as a
\* degraded result with zero scores, zero confidence and a diagnostic reason.
C14_NeverRaises ==
    /\ report # NotCalled => ~IsRaised(report)
    /\ (report # NotCalled /\ ZeroTotalWords) =>
          /\ "final_scores" \in DOMAIN report
          /\ \A d \in CategorySet : report.final_scores[d] = Zero
          /\ report.confidence_metrics.overall_confidence = Zero
    /\ (wa_report # NotCalled /\ ZeroTotalWords) =>
          /\ "error" \in DOMAIN wa_report
          /\ "final_scores" \in DOMAIN wa_report
          /\ \A d \in CategorySet : wa_report.final_scores[d] = Zero

-----------------------------------------------------------------------------
(* FacialEmotionService.calculate_stress_level (services/facial_emotion_service.py) *)

emotion_labels == <<"Neutral", "Happiness", "Sadness", "Surprise", "Fear", "Disgust", "Anger">>

EmotionLabelSet == {emotion_labels[i] : i \in 1..Len(emotion_labels)}

stress_indicators ==
    [high_stress     |-> {"Anger", "Fear", "Sadness"},
     moderate_stress |-> {"Disgust", "Surprise"},
     low_stress      |-> {"Happiness", "Neutral"}]

\* the stress weight of one frame: 3, 2 or 1 times its confidence
FrameStress(result) ==
    LET dominant_emotion == Get(result, "dominant_emotion", "Neutral")
        confidence == Get(result, "confidence", Zero)
    IN  IF dominant_emotion \in stress_indicators.high_stress
        THEN RatMul(Int2Rat(3), confidence)
        ELSE IF dominant_emotion \in stress_indicators.moderate_stress
        THEN RatMul(Int2Rat(2), confidence)
        ELSE confidence

calculate_stress_level(emotion_results) ==
    IF emotion_results = << >>
    THEN [stress_level |-> "unknown", stress_score |-> Zero, confidence |-> Zero,
          analysis |-> "No emotion data available"]
    ELSE
        LET n == Len(emotion_results)
            total_stress_score == RatSum([i \in 1..n |-> FrameStress(emotion_results[i])])
            total_confidence ==
                RatSum([i \in 1..n |-> Get(emotion_results[i], "confidence", Zero)])
            emotion_counts ==
                [e \in EmotionLabelSet |->
                    Cardinality({i \in 1..n :
                        Get(emotion_results[i], "dominant_emotion", "Neutral") = e})]
            avg_confidence == RatDiv(total_confidence, Int2Rat(n))
            normalized_stress_score ==
                RatMul(RatDiv(total_stress_score, Int2Rat(3 * n)), Hundred)
            stress_level ==
                IF RatLE(Int2Rat(70), normalized_stress_score) THEN "high"
                ELSE IF RatLE(Int2Rat(40), normalized_stress_score) THEN "moderate"
                ELSE "low"
        IN  [stress_level |-> stress_level,
             stress_score |-> Round2(normalized_stress_score),
             confidence |-> Round2(avg_confidence),
             emotion_distribution |-> emotion_counts,
             total_frames_analyzed |-> n,
             analysis |-> <<"Analyzed frames with average confidence", n, Round2(avg_confidence)>>]

-----------------------------------------------------------------------------
(* AssessmentService (services/assessment_service.py) *)

\* the keys of self.stress_categories, in their order
stress_categories == <<"academic", "social", "financial", "health", "work">>

StressCategorySet == {stress_categories[i] : i \in 1..Len(stress_categories)}

\* what the decoding of an image and FacialEmotionService.analyze_frame make
\* of facial_image_data: the service cannot be imported, the bytes are not an
\* image, or the frame is analysed into a list of per-face emotion results
ServiceUnavailable == [import_error |-> TRUE]

InvalidImage == [invalid_image |-> TRUE]

Analysed(emotion_results) == [emotions |-> emotion_results]

\* the result dict of the failure branches of analyze_facial_emotions
FacialFailure(analysis) ==
    [facial_score |-> Zero, stress_level |-> "unknown", emotions_detected |-> << >>,
     analysis |-> analysis]

analyze_facial_emotions(image_data) ==
    IF image_data = ServiceUnavailable
    THEN FacialFailure("Facial emotion service not available")
    ELSE IF image_data = InvalidImage
    THEN FacialFailure("Error in facial emotion analysis: Invalid image data")
    ELSE
        LET emotions == image_data.emotions
            stress_assessment == calculate_stress_level(emotions)
        IN  [facial_score |-> Get(stress_assessment, "stress_score", Zero),
             stress_level |-> Get(stress_assessment, "stress_level", "unknown"),
             emotions_detected |-> emotions,
             faces_detected |-> 0,
             confidence |-> Get(stress_assessment, "confidence", Zero),
             analysis |-> Get(stress_assessment, "analysis", "Facial emotion analysis completed")]

\* score >= 75 high, >= 50 moderate, >= 25 mild, else low
StressLevelOf(score) ==
    IF RatLE(Int2Rat(75), score) THEN "high"
    ELSE IF RatLE(Int2Rat(50), score) THEN "moderate"
    ELSE IF RatLE(Int2Rat(25), score) THEN "mild"
    ELSE "low"

\* value * weight and scale_max * weight of one response
WeightedScore(response) == RatMul(Get(response, "value", Zero), Get(response, "weight", One))

MaxWeightedScore(response) ==
    RatMul(Get(response, "scale_max", Int2Rat(5)), Get(response, "weight", One))

analyze_questionnaire_responses(resp) ==
    IF resp = << >>
    THEN [questionnaire_score |-> Zero, stress_level |-> "unknown",
          category_scores |-> EmptyDict,
          analysis |-> "No questionnaire responses provided"]
    ELSE IF \E i \in 1..Len(resp) : resp[i] = None
    THEN [questionnaire_score |-> Zero, stress_level |-> "unknown",
          category_scores |-> EmptyDict,
          analysis |-> "Error in questionnaire analysis: 'NoneType' object has no attribute 'get'"]
    ELSE
        LET n == Len(resp)
            total_score == RatSum([i \in 1..n |-> WeightedScore(resp[i])])
            max_possible_score == RatSum([i \in 1..n |-> MaxWeightedScore(resp[i])])
            In(category) == SelectSeq(resp, LAMBDA r : Get(r, "category", "general") = category)
            score(category) ==
                RatSum([i \in 1..Len(In(category)) |-> WeightedScore(In(category)[i])])
            max_score(category) ==
                RatSum([i \in 1..Len(In(category)) |-> MaxWeightedScore(In(category)[i])])
            category_scores ==
                [category \in StressCategorySet |->
                    [score |-> score(category),
                     max_score |-> max_score(category),
                     count |-> Len(In(category)),
                     percentage |->
                        IF RatLT(Zero, max_score(category))
                        THEN RatMul(RatDiv(score(category), max_score(category)), Hundred)
                        ELSE Zero]]
            overall_score ==
                IF RatLT(Zero, max_possible_score)
                THEN RatMul(RatDiv(total_score, max_possible_score), Hundred)
                ELSE Zero
        IN  [questionnaire_score |-> Round2(overall_score),
             stress_level |-> StressLevelOf(overall_score),
             category_scores |-> category_scores,
             total_responses |-> n,
             analysis |-> <<"Analyzed questionnaire responses", n>>]

\* list(dict.fromkeys(seq)): each entry once, at its first position
RECURSIVE Dedup(_)
Dedup(seq) ==
    IF seq = << >> THEN << >>
    ELSE LET front == Dedup(SubSeq(seq, 1, Len(seq) - 1))
             last == seq[Len(seq)]
         IN  IF \E i \in 1..Len(front) : front[i] = last THEN front ELSE Append(front, last)

\* seq[:n]
Take(seq, n) == SubSeq(seq, 1, IF Len(seq) < n THEN Len(seq) ELSE n)

\* the base recommendations of a stress level
BaseRecommendations(stress_level) ==
    CASE stress_level = "high" ->
            <<"Consider speaking with a mental health professional",
              "Practice deep breathing exercises for 10-15 minutes daily",
              "Ensure you're getting 7-9 hours of quality sleep",
              "Try progressive muscle relaxation techniques">>
      [] stress_level = "moderate" ->
            <<"Practice mindfulness or meditation for 10-15 minutes daily",
              "Maintain a regular sleep schedule",
              "Take short breaks throughout your day",
              "Try stress-reducing activities like yoga or walking">>
      [] stress_level = "mild" ->
            <<"Continue current stress management practices",
              "Maintain work-life balance",
              "Stay physically active",
              "Practice gratitude exercises">>
      [] OTHER ->
            <<"Maintain your current healthy lifestyle",
              "Continue regular exercise and good sleep habits",
              "Stay connected with your support network">>

\* the recommendation of a category whose percentage is at least 70
CategoryRecommendation(category) ==
    CASE category = "academic"  -> "Consider time management techniques for academic workload"
      [] category = "social"    -> "Focus on building supportive social connections"
      [] category = "financial" -> "Consider financial planning or counseling resources"
      [] category = "health"    -> "Prioritize physical and mental health self-care"
      [] category = "work"      -> "Explore work-life balance strategies"

\* the category-specific entries, in the order of category_scores.items()
RECURSIVE CategoryRecommendations(_, _)
CategoryRecommendations(i, category_scores) ==
    IF i > Len(stress_categories) THEN << >>
    ELSE LET category == stress_categories[i]
             rest == CategoryRecommendations(i + 1, category_scores)
         IN  IF category \in DOMAIN category_scores
                /\ RatLE(Int2Rat(70), Get(category_scores[category], "percentage", Zero))
             THEN <<CategoryRecommendation(category)>> \o rest
             ELSE rest

\* the entries for the dominant emotions 'angry', 'sad' and 'fear'
EmotionRecommendations(facial_analysis) ==
    IF facial_analysis = None \/ Get(facial_analysis, "emotions_detected", << >>) = << >>
    THEN << >>
    ELSE
        LET detected == facial_analysis.emotions_detected
            dominant_emotions ==
                {Get(detected[i], "dominant_emotion", "") : i \in 1..Len(detected)}
        IN  (IF "angry" \in dominant_emotions
             THEN <<"Practice anger management techniques">> ELSE << >>)
            \o (IF "sad" \in dominant_emotions
                THEN <<"Consider mood-boosting activities and social support">> ELSE << >>)
            \o (IF "fear" \in dominant_emotions
                THEN <<"Try anxiety reduction techniques like grounding exercises">> ELSE << >>)

\* a generator that neither removes duplicates nor cuts the list
generate_recommendations_Uncut(stress_level, category_scores, facial_analysis) ==
    BaseRecommendations(stress_level)
    \o CategoryRecommendations(1, category_scores)
    \o EmotionRecommendations(facial_analysis)

generate_recommendations(stress_level, category_scores, facial_analysis) ==
    Take(Dedup(BaseRecommendations(stress_level)
               \o CategoryRecommendations(1, category_scores)
               \o EmotionRecommendations(facial_analysis)), 8)

\* combined_confidence: 1.0, or 0.7 * 1.0 + 0.3 * the facial confidence
CombinedConfidence(questionnaire_analysis, facial_analysis, facial_used) ==
    IF facial_used
    THEN RatAdd(Rat(7, 10), RatMul(facial_analysis.confidence, Rat(3, 10)))
    ELSE One

\* the timestamp of the result is not modelled
generate_comprehensive_assessment(resp, image_data) ==
    LET questionnaire_analysis == analyze_questionnaire_responses(resp)
        facial_analysis ==
            IF image_data # None THEN analyze_facial_emotions(image_data) ELSE None
        facial_used == facial_analysis # None /\ RatLT(Zero, facial_analysis.facial_score)
        combined_score ==
            IF facial_used
            THEN RatAdd(RatMul(questionnaire_analysis.questionnaire_score, Rat(7, 10)),
                        RatMul(facial_analysis.facial_score, Rat(3, 10)))
            ELSE questionnaire_analysis.questionnaire_score
        combined_confidence ==
            CombinedConfidence(questionnaire_analysis, facial_analysis, facial_used)
        final_stress_level == StressLevelOf(combined_score)
    IN  [overall_score |-> Round2(combined_score),
         stress_level |-> final_stress_level,
         confidence |-> Round2(combined_confidence),
         questionnaire_analysis |-> questionnaire_analysis,
         facial_analysis |-> facial_analysis,
         recommendations |->
            generate_recommendations(final_stress_level,
                Get(questionnaire_analysis, "category_scores", EmptyDict), facial_analysis),
         assessment_methods |->
            [questionnaire |-> TRUE, facial_emotion |-> facial_analysis # None]]

-----------------------------------------------------------------------------
(* The inputs AssessmentService is called with, and its state machine *)

\* a response to a question of a category, on the default scale 0..5 with
\* the default weight
Response(category, value) == [category |-> category, value |-> Int2Rat(value)]

\* one response of the same value to a question of each category in S
RECURSIVE UniformResponses(_, _, _)
UniformResponses(i, S, value) ==
    IF i > Len(stress_categories) THEN << >>
    ELSE (IF stress_categories[i] \in S
          THEN <<Response(stress_categories[i], value)>> ELSE << >>)
         \o UniformResponses(i + 1, S, value)

ResponseValues == 0..5

Questionnaires ==
    {UniformResponses(1, S, v) : S \in SUBSET StressCategorySet, v \in ResponseValues}
    \cup {<<Response("general", 4)>>,
          <<[value |-> Int2Rat(3)]>>,
          <<Response("academic", 5), Response("academic", 2), Response("work", 1)>>,
          <<[category |-> "health", value |-> Int2Rat(7), scale_max |-> Int2Rat(10),
             weight |-> Int2Rat(2)], Response("social", 1)>>,
          <<[category |-> "work", value |-> Int2Rat(3), weight |-> Zero]>>,
          <<Response("work", 3), None>>}

Frame(dominant_emotion, confidence) ==
    [dominant_emotion |-> dominant_emotion, confidence |-> Prob(confidence)]

FacialImages ==
    {None, ServiceUnavailable, InvalidImage,
     Analysed(<< >>),
     Analysed(<<Frame("Neutral", 0)>>),
     Analysed(<<Frame("Anger", ProbDen - 1)>>),
     Analysed(<<Frame("Happiness", ProbDen - 2), Frame("Sadness", 6)>>)}

\* fusion requests without any confidence, and a genuinely normal one
QuietRequests ==
    {Request(None, None, None, None),
     Request(Voice(Int2Rat(80), Int2Rat(10), Int2Rat(30), Zero), None, None, None),
     Request(None, Sentiment(0, 0, 0), Keyword(0, 0, 0, 50), None),
     Request(None, None, None, Facial(0, 0, 0, ProbDen))}

InitAssessment ==
    /\ component_weights = InitialComponentWeights
    /\ \E r \in QuietRequests :
        /\ voice_results = r.voice
        /\ sentiment_results = r.sentiment
        /\ keyword_results = r.keyword
        /\ facial_results = r.facial
    /\ report = NotCalled
    /\ wa_report = NotCalled
    /\ dass21_scorer = DASS21ScoringService
    /\ responses = << >>
    /\ dass_result = NotCalled
    /\ http_response = NotCalled
    /\ questionnaire_responses \in Questionnaires
    /\ facial_image_data \in FacialImages
    /\ assessment = NotCalled
    /\ classifier_score = Zero
    /\ classifier_category = "depression"
    /\ classifier_bands = NotCalled
    /\ WebcamIdle
    /\ ControllerIdle
    /\ AnalyzerIdle

\* AssessmentService.generate_comprehensive_assessment
GenerateComprehensiveAssessment ==
    /\ assessment = NotCalled
    /\ assessment' = generate_comprehensive_assessment(questionnaire_responses, facial_image_data)
    /\ UNCHANGED <<fusion_vars, dass_vars, questionnaire_responses, facial_image_data,
                   classifier_vars,
                   webcam_vars, controller_vars, analyzer_vars>>

NextAssessment == GenerateComprehensiveAssessment \/ CalculateComprehensiveScores

SpecAssessment == InitAssessment /\ [][NextAssessment]_vars

-----------------------------------------------------------------------------
(* Insufficient data *)

\* no questionnaire responses, and no image or one the facial analysis gets
\* nothing from
InsufficientData ==
    /\ questionnaire_responses = << >>
    /\ facial_image_data \in {None, ServiceUnavailable, InvalidImage, Analysed(<< >>)}

\* the recommendation of a fusion report whose three severities are normal
NormalRecommendation ==
    <<"Mental health indicators appear normal - continue healthy practices", "">>

\* C15: insufficient data is not reported as a genuine low-risk result: with
\* no questionnaire responses and no usable facial data the assessment is not
\* stress_level 'low' with confidence 1.0, and a fusion report in which every
\* modality has confidence 0 does not carry the 'indicators appear normal'
\* recommendation.
C15_InsufficientDataNotLowRisk ==
    /\ (assessment # NotCalled /\ InsufficientData) =>
          ~(assessment.stress_level = "low" /\ assessment.confidence = One)
    /\ (Returned /\ Contributing = {}) =>
          \A i \in 1..Len(report.recommendations) :
              report.recommendations[i] # NormalRecommendation

-----------------------------------------------------------------------------
(* The three recommendation generators side by side: one of the services is
   given its inputs, the other two are called with nothing *)

InitRecommendations ==
    \/ Init
    \/ InitDASS /\ dass21_scorer = DASS21ScoringService /\ responses \in UniformLists
    \/ InitAssessment

NextRecommendations ==
    \/ CalculateComprehensiveScores
    \/ ScoreAssessment
    \/ GenerateComprehensiveAssessment

SpecRecommendations == InitRecommendations /\ [][NextRecommendations]_vars

\* generate_comprehensive_assessment has returned
Assessed == assessment # NotCalled

\* a list with at least 1 and at most 8 entries, none of them twice
BoundedDistinct(recommendations) ==
    /\ Len(recommendations) >= 1
    /\ Len(recommendations) <= 8
    /\ \A i, j \in 1..Len(recommendations) :
          recommendations[i] = recommendations[j] => i = j

\* C16: each recommendation generator (_generate_recommendations of the fusion
\* engine, _get_recommendations of the DASS-21 scorer, generate_recommendations
\* of AssessmentService) returns a list of at least 1 and at most 8 entries
\* without a duplicate.
C16_RecommendationsBounded ==
    /\ Returned => BoundedDistinct(report.recommendations)
    /\ DassReturned => BoundedDistinct(dass_result.recommendations)
    /\ Assessed => BoundedDistinct(assessment.recommendations)

\* C16 witness: an assessment with high stress and all five categories at 70
\* percent or more, whose four base and five category entries were cut to 8.
C16_Witness ==
    /\ Assessed
    /\ assessment.stress_level = "high"
    /\ \A c \in StressCategorySet :
          RatLE(Int2Rat(70), assessment.questionnaire_analysis.category_scores[c].percentage)
    /\ Len(assessment.recommendations) = 8

\* C16 witnesses for the other two generators: the longest lists they return
C16_WitnessFusion == Returned /\ Len(report.recommendations) = 3

C16_WitnessDASS == DassReturned /\ Len(dass_result.recommendations) = 6

-----------------------------------------------------------------------------
(* The order of the recommendations *)

\* a domain of the fusion report, or a subscale of the DASS-21 result, is
\* severe or extremely_severe
FusionSevere ==
    \E c \in CategorySet : SeverityOf(report.final_scores, c) \in {"severe", "extremely_severe"}

DassSevere ==
    \E c \in CategorySet : dass_result[c].severity \in {"severe", "extremely_severe"}

\* the immediate-action and the moderate-level management entries of the fusion engine
ImmediateEntry(entry) == entry[1] = "Immediate professional consultation recommended for"

ManagementEntry(entry) == entry[1] = "Consider professional support for management"

\* the entry of the DASS-21 scorer that sends the user to a professional
DassProfessionalEntry ==
    "Consider speaking with a mental health professional about depression symptoms"

\* C17: whenever the risk is critical or a domain is severe or
\* extremely_severe, the recommendation list contains an immediate-action
\* entry, and every immediate-action entry comes before every management entry
\* of a domain at moderate level.
C17_ImmediateActionFirst ==
    /\ (Returned /\ (FusionSevere \/ report.risk_assessment.overall_risk = "critical")) =>
          \E i \in 1..Len(report.recommendations) : ImmediateEntry(report.recommendations[i])
    /\ Returned =>
          \A i, j \in 1..Len(report.recommendations) :
              (ImmediateEntry(report.recommendations[i])
                  /\ ManagementEntry(report.recommendations[j])) => i < j
    /\ (DassReturned /\ DassSevere) =>
          \E i \in 1..Len(dass_result.recommendations) :
              dass_result.recommendations[i] = DassProfessionalEntry

-----------------------------------------------------------------------------
(* The keyword normalizers *)

\* the count of matched keywords of a domain in the keyword result
KeywordCount(d) ==
    Get(keyword_results,
        CASE d = "depression" -> "depression_indicators"
          [] d = "anxiety"    -> "anxiety_indicators"
          [] d = "stress"     -> "stress_indicators", 0)

TotalWords == Get(keyword_results, "total_words", 1)

TotalKeywords == KeywordCount("depression") + KeywordCount("anxiety") + KeywordCount("stress")

\* min(100, factor * count / total_words) as an exact value
ScaledDensity(factor, d) ==
    LET x == Rat(factor * KeywordCount(d), TotalWords)
    IN  IF RatLT(Hundred, x) THEN Hundred ELSE x

\* the confidence the claim describes: total matches over 10, at most 1
MatchConfidence == IF TotalKeywords >= 10 THEN One ELSE Rat(TotalKeywords, 10)

\* C18 as claimed: the keyword normalizer of the fusion engine gives each
\* domain min(100, 200 * count / total_words), with a confidence of
\* matches / 10 that is exactly 1.0 from 10 matches on.
C18_KeywordScore200 ==
    (Returned /\ Truthy(keyword_results)) =>
        LET normalized == report.component_scores["keyword_matching"]
        IN  /\ \A d \in CategorySet : normalized[d] = ScaledDensity(200, d)
            /\ normalized.confidence = MatchConfidence

\* C18 amended: _process_keyword_results of WeightedAIAssessmentEngine gives
\* each domain min(100, 500 * count / total_words), with a confidence of
\* matches / 10 that is exactly 1.0 from 10 matches on; the factor 200 is the
\* one of _convert_keywords_to_scores of WeightedAssessmentEngine, which
\* carries no confidence.
C18_KeywordScore500 ==
    /\ (Returned /\ Truthy(keyword_results)) =>
          LET normalized == report.component_scores["keyword_matching"]
          IN  /\ \A d \in CategorySet : normalized[d] = ScaledDensity(500, d)
              /\ normalized.confidence = MatchConfidence
    /\ (WAReturned /\ Truthy(keyword_results)) =>
          \A d \in CategorySet :
              /\ wa_report.component_scores[d].keyword = ScaledDensity(200, d)
              /\ DOMAIN wa_report.component_scores[d] \subseteq {"voice", "sentiment", "keyword", "facial"}

\* C18 witness: a keyword result with 12 matches in 50 words was normalized
\* by both engines: 40 with confidence 1.0 in the one, 16 in the other.
C18_Witness ==
    /\ Returned /\ WAReturned
    /\ Truthy(keyword_results)
    /\ TotalKeywords >= 10
    /\ report.component_scores["keyword_matching"].depression = Int2Rat(40)
    /\ report.component_scores["keyword_matching"].confidence = One
    /\ wa_report.component_scores["depression"].keyword = Int2Rat(16)

\* C18 witness below saturation: 3 matches give the confidence 0.3
C18_WitnessPartial ==
    /\ Returned
    /\ Truthy(keyword_results)
    /\ TotalKeywords = 3
    /\ report.component_scores["keyword_matching"].confidence = Rat(3, 10)

-----------------------------------------------------------------------------
(* The severity classifiers of the voice scorers *)

\* MentalHealthScorer._score_to_severity (mental_health_scorer.py)
MentalHealthScorer_score_to_severity(score, condition) ==
    LET ladder(normal, mild, moderate, severe) ==
            IF RatLE(score, Int2Rat(normal)) THEN "normal"
            ELSE IF RatLE(score, Int2Rat(mild)) THEN "mild"
            ELSE IF RatLE(score, Int2Rat(moderate)) THEN "moderate"
            ELSE IF RatLE(score, Int2Rat(severe)) THEN "severe"
            ELSE "extremely_severe"
    IN  IF condition = "depression" THEN ladder(9, 13, 20, 27)
        ELSE IF condition = "anxiety" THEN ladder(7, 9, 14, 19)
        ELSE ladder(14, 18, 25, 33)

\* EnhancedVoiceProcessor._score_to_severity (models/enhanced_voice_processor.py)
EnhancedVoiceProcessor_score_to_severity(score, category) ==
    LET ladder(normal, mild, moderate, severe) ==
            IF RatLE(score, Int2Rat(normal)) THEN "normal"
            ELSE IF RatLE(score, Int2Rat(mild)) THEN "mild"
            ELSE IF RatLE(score, Int2Rat(moderate)) THEN "moderate"
            ELSE IF RatLE(score, Int2Rat(severe)) THEN "severe"
            ELSE "extremely_severe"
    IN  IF category = "depression" THEN ladder(9, 13, 20, 27)
        ELSE IF category = "anxiety" THEN ladder(7, 9, 14, 19)
        ELSE IF category = "stress" THEN ladder(14, 18, 25, 33)
        ELSE "normal"

\* AdvancedVoiceMentalHealthAnalyzer._score_to_severity
\* (models/advanced_voice_mental_health.py): one ladder for every domain
AdvancedVoice_score_to_severity(score) ==
    IF RatLT(score, Int2Rat(10)) THEN "normal"
    ELSE IF RatLT(score, Int2Rat(25)) THEN "mild"
    ELSE IF RatLT(score, Int2Rat(50)) THEN "moderate"
    ELSE IF RatLT(score, Int2Rat(75)) THEN "severe"
    ELSE "extremely_severe"

\* the classifiers, by the class that owns them
Classifiers ==
    {"DASS21ScoringService", "WeightedAIAssessmentEngine", "WeightedAssessmentEngine",
     "MentalHealthScorer", "EnhancedVoiceProcessor", "AdvancedVoiceMentalHealthAnalyzer"}

\* the band each classifier returns for a score of a domain
ClassifyAll(score, category) ==
    [k \in Classifiers |->
        CASE k = "DASS21ScoringService"       -> _get_severity(score, category)
          [] k = "WeightedAIAssessmentEngine" -> _score_to_severity(score, category)
          [] k = "WeightedAssessmentEngine"   -> WA_score_to_severity(score, category)
          [] k = "MentalHealthScorer"         -> MentalHealthScorer_score_to_severity(score, category)
          [] k = "EnhancedVoiceProcessor"     -> EnhancedVoiceProcessor_score_to_severity(score, category)
          [] k = "AdvancedVoiceMentalHealthAnalyzer" -> AdvancedVoice_score_to_severity(score)]

\* the largest DASS-21 subscale score (the upper end of the extremely_severe band)
MaxDassScore == 42

InitClassifier ==
    /\ component_weights = InitialComponentWeights
    /\ voice_results = None
    /\ sentiment_results = None
    /\ keyword_results = None
    /\ facial_results = None
    /\ report = NotCalled
    /\ wa_report = NotCalled
    /\ dass21_scorer = DASS21ScoringService
    /\ responses = << >>
    /\ dass_result = NotCalled
    /\ http_response = NotCalled
    /\ questionnaire_responses = << >>
    /\ facial_image_data = None
    /\ assessment = NotCalled
    /\ classifier_score \in {Int2Rat(i) : i \in 0..MaxDassScore}
    /\ classifier_category \in CategorySet
    /\ classifier_bands = NotCalled
    /\ WebcamIdle
    /\ ControllerIdle
    /\ AnalyzerIdle

\* every classifier is called with the score and the domain
Classify ==
    /\ classifier_bands = NotCalled
    /\ WebcamIdle
    /\ ControllerIdle
    /\ AnalyzerIdle
    /\ classifier_bands' = ClassifyAll(classifier_score, classifier_category)
    /\ UNCHANGED <<fusion_vars, dass_vars, assessment_vars, classifier_score, classifier_category,
                   webcam_vars, controller_vars, analyzer_vars>>

NextClassifier == Classify

SpecClassifier == InitClassifier /\ [][NextClassifier]_vars

\* C19: for every domain and every integer score in 0..42 all severity
\* classifiers (DASS-21 scorer, both weighted fusion engines, the voice
\* scorers) return the same band.
C19_ClassifiersAgree ==
    classifier_bands # NotCalled =>
        \A k1, k2 \in Classifiers : classifier_bands[k1] = classifier_bands[k2]

\* what does hold: the classifiers that use the DASS-21 table agree
TableClassifiersAgree ==
    classifier_bands # NotCalled =>
        \A k1, k2 \in Classifiers \ {"AdvancedVoiceMentalHealthAnalyzer"} :
            classifier_bands[k1] = classifier_bands[k2]

-----------------------------------------------------------------------------
(* The weight table across calls.  The report's 'component_weights' entry is
   self.component_weights itself, not a copy: a caller that stores into that
   entry of the report stores into the engine's table. *)

\* the requests of the successive calls
RepeatedRequests ==
    {Request(None, None, None, None),
     Request(Voice(Int2Rat(80), Int2Rat(10), Int2Rat(30), Rat(9, 10)), None, None,
             Facial(7, 3, 0, 0)),
     Request(None, Sentiment(2, 3, ProbDen - 5), Keyword(4, 4, 4, 50), None)}

\* the values a caller stores into report['component_weights']
CallerWeights == {Zero, One}

InitWeights ==
    /\ component_weights = InitialComponentWeights
    /\ \E r \in RepeatedRequests :
        /\ voice_results = r.voice
        /\ sentiment_results = r.sentiment
        /\ keyword_results = r.keyword
        /\ facial_results = r.facial
    /\ report = NotCalled
    /\ wa_report = NotCalled
    /\ dass21_scorer = DASS21ScoringService
    /\ responses = << >>
    /\ dass_result = NotCalled
    /\ http_response = NotCalled
    /\ questionnaire_responses = << >>
    /\ facial_image_data = None
    /\ assessment = NotCalled
    /\ classifier_score = Zero
    /\ classifier_category = "depression"
    /\ classifier_bands = NotCalled
    /\ WebcamIdle
    /\ ControllerIdle
    /\ AnalyzerIdle

\* one more call of WeightedAIAssessmentEngine.calculate_comprehensive_scores on
\* the same engine
CalculateAgain ==
    \E r \in RepeatedRequests :
        /\ voice_results' = r.voice
        /\ sentiment_results' = r.sentiment
        /\ keyword_results' = r.keyword
        /\ facial_results' = r.facial
        /\ report' = calculate_comprehensive_scores(component_weights, r.voice, r.sentiment,
                                                    r.keyword, r.facial)
        /\ UNCHANGED <<component_weights, wa_report, dass_vars, assessment_vars, classifier_vars,
                   webcam_vars, controller_vars, analyzer_vars>>

\* the caller executes report['component_weights'][component] = w
CallerStoresWeight ==
    /\ Returned
    /\ \E component \in ComponentSet, w \in CallerWeights :
        /\ component_weights' = [component_weights EXCEPT ![component] = w]
        /\ report' = [report EXCEPT !.component_weights = component_weights']
    /\ UNCHANGED <<voice_results, sentiment_results, keyword_results, facial_results,
                   wa_report, dass_vars, assessment_vars, classifier_vars,
                   webcam_vars, controller_vars, analyzer_vars>>

NextWeights == CalculateAgain \/ CallerStoresWeight

SpecWeights == InitWeights /\ [][NextWeights]_vars

\* the weight table as the claim gives it
StatedWeights ==
    [c \in ComponentSet |->
        CASE c = "voice_analysis"     -> Rat(40, 100)
          [] c = "sentiment_analysis" -> Rat(25, 100)
          [] c = "keyword_matching"   -> Rat(20, 100)
          [] c = "facial_analysis"    -> Rat(15, 100)]

\* C20: the weight table is voice 0.40, sentiment 0.25, keyword 0.20, facial
\* 0.15, its values sum to 1.0, and no sequence of calls of
\* calculate_comprehensive_scores, with whatever the caller does with the
\* returned reports, changes the table later calls use.
C20_WeightTableConstant ==
    /\ component_weights = StatedWeights
    /\ RatSumOver(ComponentSet, component_weights) = One
    /\ Returned => report.component_weights = StatedWeights

\* what does hold: the engine's own calls leave the table as it is
CallsKeepWeights == [][CalculateAgain => component_weights' = component_weights]_vars

-----------------------------------------------------------------------------
(* FacialEmotionService: the temporal window of the LSTM model, and the
   /analyze/webcam-frame endpoint of main.py that feeds it.

   The module creates one FacialEmotionService() at import time and main.py
   hands every request to it.  The features of a face are modelled by where
   they came from (the session that sent the frame, the arrival number of
   the frame, the index of the face in it); the probabilities the networks
   compute from them are not modelled, so the response is its status and
   the number of faces only. *)

\* every scoring variable of the other services, left as constructed
ScoringIdle ==
    /\ component_weights = InitialComponentWeights
    /\ voice_results = None
    /\ sentiment_results = None
    /\ keyword_results = None
    /\ facial_results = None
    /\ report = NotCalled
    /\ wa_report = NotCalled
    /\ dass21_scorer = DASS21ScoringService
    /\ responses = << >>
    /\ dass_result = NotCalled
    /\ http_response = NotCalled
    /\ questionnaire_responses = << >>
    /\ facial_image_data = None
    /\ assessment = NotCalled
    /\ classifier_score = Zero
    /\ classifier_category = "depression"
    /\ classifier_bands = NotCalled

\* [features] * 10 and lstm_features[1:] keep ten feature vectors
WindowSize == 10

\* FaceMesh(max_num_faces=1)
max_num_faces == 1

\* use_dynamic of the global instance (the default of __init__)
use_dynamic == TRUE

\* the feature vector the backbone extracts from one face of one frame
Features(session, frame, face) == [session |-> session, frame |-> frame, face |-> face]

\* [x] * n
Replicate(x, n) == [i \in 1..n |-> x]

\* does analyze_emotion_dynamic reach the LSTM for this face?  Not when a
\* model is missing (static analysis) or the face cannot be preprocessed
\* (mock result)
ReachesLstm(models, face_usable) ==
    models.backbone_model /\ models.lstm_model /\ face_usable

\* analyze_emotion_dynamic without eviction: the window grows
analyze_emotion_dynamic_NoEviction(models, window, face_usable, features) ==
    IF ~ReachesLstm(models, face_usable)
    THEN window
    ELSE IF Len(window) = 0
    THEN Replicate(features, WindowSize)
    ELSE window \o <<features>>

\* FacialEmotionService.analyze_emotion_dynamic: what it leaves in lstm_features
analyze_emotion_dynamic(models, window, face_usable, features) ==
    IF ~ReachesLstm(models, face_usable)
    THEN window
    ELSE IF Len(window) = 0
    THEN Replicate(features, WindowSize)
    ELSE Tail(window) \o <<features>>

\* FacialEmotionService.analyze_emotion
analyze_emotion(models, window, face_usable, features) ==
    IF use_dynamic /\ models.lstm_model
    THEN analyze_emotion_dynamic(models, window, face_usable, features)
    ELSE window

\* the loop of analyze_frame over the detected faces, from face i on
RECURSIVE AnalyzeFaces(_, _, _, _, _, _)
AnalyzeFaces(models, window, faces, session, frame, i) ==
    IF i > Len(faces)
    THEN window
    ELSE AnalyzeFaces(models,
                      analyze_emotion(models, window, faces[i], Features(session, frame, i)),
                      faces, session, frame, i + 1)

\* FacialEmotionService.analyze_frame: what it leaves in lstm_features; it
\* returns one result per detected face
analyze_frame(models, window, faces, session, frame) ==
    AnalyzeFaces(models, window, faces, session, frame, 1)

\* FacialEmotionService.reset_temporal_state
reset_temporal_state == << >>

\* how many faces of the frame reached the LSTM
LstmRuns(models, faces) ==
    Cardinality({i \in 1..Len(faces) : use_dynamic /\ ReachesLstm(models, faces[i])})

(* Inputs *)

\* how many frames the sessions send in a run
MaxFrames == 3

\* the user_id of the two sessions
Sessions == {"session_a", "session_b"}

\* what detect_faces finds in a decoded image: a list of at most max_num_faces
\* faces, each of which _preprocess_face can use (TRUE) or not (FALSE)
DetectedFaces == UNION {[1..n -> BOOLEAN] : n \in 0..max_num_faces}

\* request.image_data: something cv2.imdecode rejects, or an image with its faces
WebcamImages ==
    {[decoded |-> FALSE, faces |-> << >>]}
        \cup {[decoded |-> TRUE, faces |-> faces] : faces \in DetectedFaces}

InitWebcam ==
    /\ ScoringIdle
    /\ facial_models \in [backbone_model : BOOLEAN, lstm_model : BOOLEAN]
    /\ lstm_features = << >>
    /\ frames_received = 0
    /\ last_reset_frame = 0
    /\ analysed_since_reset = 0
    /\ webcam_request = NotCalled
    /\ ControllerIdle
    /\ AnalyzerIdle

\* POST /analyze/webcam-frame.  The handler has no await in it, so a request
\* runs from its first line to its response before the next one starts.
AnalyzeWebcamFrame ==
    \E session \in Sessions, reset_temporal \in BOOLEAN,
       image \in WebcamImages :
        LET frame == frames_received + 1
            window_at_analysis ==
                IF reset_temporal THEN reset_temporal_state ELSE lstm_features
            runs == IF image.decoded THEN LstmRuns(facial_models, image.faces) ELSE 0
        IN  /\ frames_received < MaxFrames
            /\ frames_received' = frame
            /\ lstm_features' =
                   IF image.decoded
                   THEN analyze_frame(facial_models, window_at_analysis, image.faces,
                                      session, frame)
                   ELSE window_at_analysis
            /\ last_reset_frame' = IF reset_temporal THEN frame ELSE last_reset_frame
            /\ analysed_since_reset' =
                   (IF reset_temporal THEN 0 ELSE analysed_since_reset) + runs
            /\ webcam_request' =
                   [session |-> session,
                    frame_number |-> frame,
                    reset_temporal |-> reset_temporal,
                    status_code |-> IF image.decoded THEN 200 ELSE 400,
                    faces_detected |-> Len(image.faces),
                    window_before |-> lstm_features,
                    window_at_analysis |-> window_at_analysis,
                    lstm_runs |-> runs]
            /\ UNCHANGED <<facial_models, fusion_vars, dass_vars, assessment_vars,
                           classifier_vars, controller_vars, analyzer_vars>>

NextWebcam == AnalyzeWebcamFrame

SpecWebcam == InitWebcam /\ [][NextWebcam]_vars

(* Properties of the temporal window *)

\* the request the handler served last ran the LSTM on a face of its frame
LstmRan == webcam_request # NotCalled /\ webcam_request.lstm_runs > 0

\* the features of the first face of the frame of the last request
RequestFeatures == Features(webcam_request.session, webcam_request.frame_number, 1)

\* the entries of a window are in the order in which their faces arrived
InArrivalOrder(window) ==
    \A i, j \in 1..Len(window) :
        i < j => \/ window[i].frame < window[j].frame
                 \/ window[i].frame = window[j].frame /\ window[i].face <= window[j].face

\* C21: after any sequence of frame analyses and resets the temporal window
\* holds at most 10 entries, in arrival order, and once it is full an analysed
\* frame appends its features at the end and evicts exactly the oldest entry.
C21_WindowIsFIFO ==
    /\ Len(lstm_features) <= WindowSize
    /\ InArrivalOrder(lstm_features)
    /\ (LstmRan /\ Len(webcam_request.window_at_analysis) = WindowSize) =>
           lstm_features = Tail(webcam_request.window_at_analysis) \o <<RequestFeatures>>

\* a full window took a third frame in: the first of its features are still at
\* the head, the newest at the end
C21_Witness ==
    /\ LstmRan
    /\ Len(webcam_request.window_at_analysis) = WindowSize
    /\ Cardinality({lstm_features[i].frame : i \in 1..Len(lstm_features)}) = 3
    /\ lstm_features[WindowSize] = RequestFeatures

\* a reset has happened, and the LSTM has run on fewer than ten faces since
ColdStart ==
    /\ LstmRan
    /\ last_reset_frame > 0
    /\ analysed_since_reset < WindowSize

\* C22: reset_temporal_state empties the window, and after a reset the k-th
\* analysed frame (k < 10) is evaluated on a window of exactly k entries, all
\* of them from frames received after the reset, without raising.
C22_ColdStartWindow ==
    /\ (webcam_request # NotCalled /\ webcam_request.reset_temporal) =>
           webcam_request.window_at_analysis = << >>
    /\ ColdStart =>
           /\ Len(lstm_features) = analysed_since_reset
           /\ \A i \in 1..Len(lstm_features) : lstm_features[i].frame >= last_reset_frame
           /\ webcam_request.status_code = 200

\* what does hold on a cold start: the window is full from the first face on,
\* its head filled with copies of the first features extracted after the reset
PaddedColdStart ==
    ColdStart =>
        /\ Len(lstm_features) = WindowSize
        /\ \A i \in 1..(WindowSize - analysed_since_reset + 1) :
               lstm_features[i] = lstm_features[1]
        /\ \A i \in 1..Len(lstm_features) : lstm_features[i].frame >= last_reset_frame
        /\ webcam_request.status_code = 200

\* the entries of a window that another session than the requesting one sent
OfOtherSessions(window) ==
    LET Other(features) == features.session # webcam_request.session
    IN  SelectSeq(window, Other)

\* C23: when two sessions send frames to /analyze/webcam-frame in any
\* interleaving, the window a frame is analysed on holds only features of
\* frames of the same session, and a reset requested by one session leaves
\* the entries of the other session's window as they were.
C23_SessionIsolation ==
    webcam_request # NotCalled =>
        /\ LstmRan => \A i \in 1..Len(lstm_features) :
                          lstm_features[i].session = webcam_request.session
        /\ webcam_request.reset_temporal =>
               OfOtherSessions(webcam_request.window_at_analysis)
                   = OfOtherSessions(webcam_request.window_before)

\* a window after one more entry came in: filled from empty, or slid by one
Advanced(window, features) ==
    IF Len(window) = 0
    THEN Replicate(features, WindowSize)
    ELSE Tail(window) \o <<features>>

\* C24: analysing one frame with analyze_frame advances the temporal window
\* by exactly one entry, the features of that frame, however many faces are
\* detected in it.
C24_OneEntryPerFrame ==
    (webcam_request # NotCalled /\ webcam_request.status_code = 200
        /\ facial_models.backbone_model /\ facial_models.lstm_model) =>
        lstm_features = Advanced(webcam_request.window_at_analysis, RequestFeatures)

-----------------------------------------------------------------------------
(* Severity as a function of the score: the three classifiers that the DASS
   bands are written into, each called with a score and with the next score
   of the 0.01 grid that round(x, 2) puts the fused scores on *)

\* the classifiers, by the class that defines them
BandClassifiers == {"WeightedAIAssessmentEngine", "DASS21ScoringService", "MentalHealthScorer"}

\* the band each of them returns
BandsAt(score, category) ==
    [c \in BandClassifiers |->
        CASE c = "WeightedAIAssessmentEngine" -> _score_to_severity(score, category)
          [] c = "DASS21ScoringService"       -> _get_severity(score, category)
          [] c = "MentalHealthScorer"         ->
                 MentalHealthScorer_score_to_severity(score, category)]

\* one step of the grid of scores
GridStep == Rat(1, 100)

InitMonotone ==
    /\ component_weights = InitialComponentWeights
    /\ voice_results = None
    /\ sentiment_results = None
    /\ keyword_results = None
    /\ facial_results = None
    /\ report = NotCalled
    /\ wa_report = NotCalled
    /\ dass21_scorer = DASS21ScoringService
    /\ responses = << >>
    /\ dass_result = NotCalled
    /\ http_response = NotCalled
    /\ questionnaire_responses = << >>
    /\ facial_image_data = None
    /\ assessment = NotCalled
    /\ classifier_score \in {Rat(i, 100) : i \in 0..(100 * MaxDassScore)}
    /\ classifier_category \in CategorySet
    /\ classifier_bands = NotCalled
    /\ WebcamIdle
    /\ ControllerIdle
    /\ AnalyzerIdle

\* every classifier is called with the score a and with b = a + 0.01
ClassifyNeighbours ==
    /\ classifier_bands = NotCalled
    /\ classifier_bands' =
           [a |-> BandsAt(classifier_score, classifier_category),
            b |-> BandsAt(RatAdd(classifier_score, GridStep), classifier_category)]
    /\ UNCHANGED <<fusion_vars, dass_vars, assessment_vars, classifier_score,
                   classifier_category, webcam_vars, controller_vars, analyzer_vars>>

NextMonotone == ClassifyNeighbours

SpecMonotone == InitMonotone /\ [][NextMonotone]_vars

\* the classifier was called with a and b, and the band of b is not below the band of a
BandsAscend(c) ==
    "a" \in DOMAIN classifier_bands =>
        SeverityIndex(classifier_bands.a[c]) <= SeverityIndex(classifier_bands.b[c])

\* C25: for each domain severity is monotone in the score: for scores a <= b
\* of the 0.01 grid the band returned for b is never lower than the band
\* returned for a, in the order normal < mild < moderate < severe <
\* extremely_severe.  (Monotone on neighbours is monotone on the grid.)
C25_SeverityMonotone == \A c \in BandClassifiers : BandsAscend(c)

\* what does hold: the ladder of MentalHealthScorer is monotone
LadderIsMonotone == BandsAscend("MentalHealthScorer")

-----------------------------------------------------------------------------
(* ComprehensiveAssessmentController (models/comprehensive_assessment_controller.py):
   the step-wise assessment flow kept in st.session_state.assessment_flow.
   Indices are Python's: current_step = 0 is the first step.  The results a
   step stores and the timestamps are modelled by one value each. *)

\* self.assessment_steps
assessment_steps ==
    <<"questionnaire", "language_analysis", "voice_analysis", "facial_analysis",
      "final_report">>

StepSet == {assessment_steps[i] : i \in 1..Len(assessment_steps)}

\* self.assessment_steps.index(step)
StepIndex(step) == (CHOOSE i \in 1..Len(assessment_steps) : assessment_steps[i] = step) - 1

\* datetime.now().isoformat()
Now == [isoformat |-> "now"]

\* the results dict a caller passes to complete_step
StepResults == [score |-> "results"]

\* the flow that __init__ and reset_assessment put into the session state
InitialAssessmentFlow ==
    [current_step |-> 0, completed_steps |-> << >>, results |-> EmptyDict,
     started_at |-> None, completed_at |-> None]

\* step in list
InList(step, list) == \E i \in 1..Len(list) : list[i] = step

\* ComprehensiveAssessmentController.get_current_step
get_current_step(flow) ==
    LET current_index == flow.current_step
    IN  IF current_index < Len(assessment_steps)
        THEN assessment_steps[current_index + 1]
        ELSE "completed"

\* ComprehensiveAssessmentController.is_step_completed
is_step_completed(flow, step) == InList(step, flow.completed_steps)

\* ComprehensiveAssessmentController.complete_step
complete_step(flow, step, results) ==
    LET current_index == flow.current_step
    IN  [flow EXCEPT
            !.completed_steps = IF InList(step, @) THEN @ ELSE Append(@, step),
            !.results = [s \in DOMAIN @ \cup {step} |->
                            IF s = step
                            THEN [data |-> results, completed_at |-> Now]
                            ELSE @[s]],
            !.current_step = IF current_index < Len(assessment_steps) - 1
                             THEN current_index + 1
                             ELSE current_index]

\* ComprehensiveAssessmentController.start_assessment
start_assessment(flow) ==
    [flow EXCEPT !.started_at = Now, !.current_step = 0,
                 !.completed_steps = << >>, !.results = EmptyDict]

\* ComprehensiveAssessmentController.reset_assessment
reset_assessment(flow) == InitialAssessmentFlow

\* ComprehensiveAssessmentController.can_proceed_to_step
can_proceed_to_step(flow, target_step) ==
    LET target_index == StepIndex(target_step)
        current_index == flow.current_step
    IN  target_index <= current_index \/ InList(target_step, flow.completed_steps)

\* ComprehensiveAssessmentController.is_assessment_complete
is_assessment_complete(flow) ==
    \A i \in 1..(Len(assessment_steps) - 1) :
        InList(assessment_steps[i], flow.completed_steps)

InitController ==
    /\ ScoringIdle
    /\ WebcamIdle
    /\ assessment_flow = InitialAssessmentFlow
    /\ AnalyzerIdle

StartAssessment ==
    /\ assessment_flow' = start_assessment(assessment_flow)
    /\ UNCHANGED <<fusion_vars, dass_vars, assessment_vars, classifier_vars, webcam_vars,
                   analyzer_vars>>

CompleteStep ==
    \E step \in StepSet :
        /\ assessment_flow' = complete_step(assessment_flow, step, StepResults)
        /\ UNCHANGED <<fusion_vars, dass_vars, assessment_vars, classifier_vars,
                       webcam_vars, analyzer_vars>>

ResetAssessment ==
    /\ assessment_flow' = reset_assessment(assessment_flow)
    /\ UNCHANGED <<fusion_vars, dass_vars, assessment_vars, classifier_vars, webcam_vars,
                   analyzer_vars>>

NextController == StartAssessment \/ CompleteStep \/ ResetAssessment

SpecController == InitController /\ [][NextController]_vars

(* Properties of the assessment flow *)

\* every step before the target in the fixed order is completed
PrecedingCompleted(flow, target_step) ==
    \A i \in 1..StepIndex(target_step) : is_step_completed(flow, assessment_steps[i])

\* C26: after any sequence of start_assessment, complete_step and
\* reset_assessment calls, can_proceed_to_step(t) is true only if t is already
\* completed or every step before t in the order questionnaire,
\* language_analysis, voice_analysis, facial_analysis, final_report has been
\* completed; completing the same step twice unlocks no later step.
C26_ProceedOnlyInOrder ==
    \A t \in StepSet :
        can_proceed_to_step(assessment_flow, t) =>
            \/ is_step_completed(assessment_flow, t)
            \/ PrecedingCompleted(assessment_flow, t)

\* the steps of the fixed order that are not completed
OpenSteps(flow) == {i \in 1..Len(assessment_steps) : ~is_step_completed(flow, assessment_steps[i])}

\* the first step of the fixed order that is not completed, 'completed' if none is left
FirstOpenStep(flow) ==
    IF OpenSteps(flow) = {}
    THEN "completed"
    ELSE assessment_steps[CHOOSE i \in OpenSteps(flow) : \A j \in OpenSteps(flow) : i <= j]

\* C27: get_current_step returns the first step of the fixed order that has
\* not been completed yet, and 'completed' once complete_step has been called
\* for all five steps.
C27_CurrentStepIsFirstOpen ==
    get_current_step(assessment_flow) = FirstOpenStep(assessment_flow)

\* what does hold: current_step counts the calls of complete_step since the
\* flow was started, up to the index of the last step
CurrentStepInRange ==
    /\ assessment_flow.current_step \in 0..(Len(assessment_steps) - 1)
    /\ get_current_step(assessment_flow) # "completed"
    /\ Len(assessment_flow.completed_steps) <= Len(assessment_steps)

-----------------------------------------------------------------------------
(* EnhancedFacialBehaviorAnalyzer (models/facial_behavior_analyzer.py) *)

\* self.emotion_weights
emotion_weights ==
    [emotion \in {"angry", "disgust", "fear", "happy", "sad", "surprise", "neutral"} |->
        CASE emotion = "angry"    -> Rat(-7, 10)
          [] emotion = "disgust"  -> Rat(-5, 10)
          [] emotion = "fear"     -> Rat(-8, 10)
          [] emotion = "happy"    -> Rat(8, 10)
          [] emotion = "sad"      -> Rat(-9, 10)
          [] emotion = "surprise" -> Rat(1, 10)
          [] emotion = "neutral"  -> Zero]

\* self.stress_thresholds
stress_thresholds ==
    [low |-> Rat(35, 100), moderate |-> Rat(55, 100), high |-> Rat(75, 100), severe |-> One]

\* min(1.0, emotion_data.get("face_size", 1000) / 10000)
FaceSizeFactor(emotion_data) ==
    RatMin(One, Rat(Get(emotion_data, "face_size", 1000), 10000))

\* weight * confidence * face_size_factor
WeightedEmotionScore(emotion_data) ==
    RatMul(RatMul(Get(emotion_weights, emotion_data.dominant_emotion, Zero),
                  emotion_data.confidence),
           FaceSizeFactor(emotion_data))

\* EnhancedFacialBehaviorAnalyzer._calculate_stress_level
_calculate_stress_level(emotions) ==
    IF emotions = << >>
    THEN [level |-> "unknown", score |-> Zero, confidence |-> Zero]
    ELSE
        LET n == Len(emotions)
            total_score == RatSum([i \in 1..n |-> WeightedEmotionScore(emotions[i])])
            total_confidence == RatSum([i \in 1..n |-> emotions[i].confidence])
            avg_score == RatDiv(total_score, Int2Rat(n))
            avg_confidence == RatDiv(total_confidence, Int2Rat(n))
            level ==
                IF RatLE(avg_score, stress_thresholds.severe) THEN "severe"
                ELSE IF RatLE(avg_score, stress_thresholds.high) THEN "high"
                ELSE IF RatLE(avg_score, stress_thresholds.moderate) THEN "moderate"
                ELSE "low"
        IN  [level |-> level, score |-> avg_score, confidence |-> avg_confidence]

(* Inputs *)

\* the confidence of a dominant emotion: the constants of _basic_emotion_analysis
\* (0.3, 0.4, 0.5, 0.6) and a CNN that is certain
FaceConfidences == {Rat(3, 10), Rat(4, 10), Rat(5, 10), Rat(6, 10), One}

\* w * h of a detected face: smaller and not smaller than the 10000 that
\* count as fully reliable
FaceSizes == {2500, 10000}

\* what analyze_frame makes of one face
FaceEmotions ==
    [dominant_emotion : DOMAIN emotion_weights, confidence : FaceConfidences,
     face_size : FaceSizes]

\* the most faces in a frame
MaxFaces == 2

FaceEmotionLists == UNION {[1..n -> FaceEmotions] : n \in 0..MaxFaces}

InitStress ==
    /\ ScoringIdle
    /\ WebcamIdle
    /\ ControllerIdle
    /\ face_emotions \in FaceEmotionLists
    /\ overall_stress = NotCalled
    /\ emotion_history = << >>
    /\ entries_arrived = 0
    /\ face_history = << >>
    /\ face_arrivals = << >>
    /\ face_stability = NotCalled

\* _calculate_stress_level(face_emotions)
CalculateStressLevel ==
    /\ overall_stress = NotCalled
    /\ overall_stress' = _calculate_stress_level(face_emotions)
    /\ UNCHANGED <<fusion_vars, dass_vars, assessment_vars, classifier_vars, webcam_vars,
                   controller_vars, face_emotions, emotion_history, entries_arrived,
                   face_history, face_arrivals, face_stability>>

NextStress == CalculateStressLevel

SpecStress == InitStress /\ [][NextStress]_vars

\* the level that the documented thresholds give a score: low up to 0.35,
\* moderate up to 0.55, high up to 0.75, severe up to 1.0
StatedStressLevel(score) ==
    IF RatLE(score, Rat(35, 100)) THEN "low"
    ELSE IF RatLE(score, Rat(55, 100)) THEN "moderate"
    ELSE IF RatLE(score, Rat(75, 100)) THEN "high"
    ELSE "severe"

\* _calculate_stress_level has returned a level for detected faces
StressLevelReturned == overall_stress # NotCalled /\ face_emotions # << >>

\* C28: _calculate_stress_level classifies the averaged score by the
\* documented thresholds (low up to 0.35, moderate up to 0.55, high up to
\* 0.75, severe up to 1.0), so that each of the four levels is returned for
\* some detected faces.
C28_LevelByThresholds ==
    StressLevelReturned => overall_stress.level = StatedStressLevel(overall_stress.score)

\* what does hold: whatever the faces, the level is 'severe'
AlwaysSevere == StressLevelReturned => overall_stress.level = "severe"

-----------------------------------------------------------------------------
(* EnhancedFacialBehaviorAnalyzer.analyze_frame and its emotion_history.  An
   entry of the history is told from the others by its timestamp, which is
   modelled as the number of the entry in the order of arrival. *)

\* if len(self.emotion_history) > 100
HistoryLimit == 100

\* self.emotion_history[-50:]
HistoryKeep == 50

\* list[-n:]
LastN(list, n) ==
    IF Len(list) <= n THEN list ELSE SubSeq(list, Len(list) - n + 1, Len(list))

\* a trim that keeps the oldest entries, list[:50]
TrimHistory_KeepOldest(history) ==
    IF Len(history) > HistoryLimit THEN SubSeq(history, 1, HistoryKeep) ELSE history

\* "Keep history manageable"
TrimHistory(history) ==
    IF Len(history) > HistoryLimit THEN LastN(history, HistoryKeep) ELSE history

\* EnhancedFacialBehaviorAnalyzer.analyze_frame for the emotions of the
\* detected faces: the history it leaves, and the stress it computed
Enhanced_analyze_frame(history, emotions, timestamp) ==
    IF emotions = << >>
    THEN [emotion_history |-> history, overall_stress |-> NotCalled]
    ELSE LET stress == _calculate_stress_level(emotions)
         IN  [emotion_history |->
                  TrimHistory(Append(history, [timestamp |-> timestamp,
                                               emotions |-> emotions,
                                               stress_level |-> stress])),
              overall_stress |-> stress]

(* Inputs *)

\* how many entries arrive in a run: enough for the history to be cut twice
MaxEntries == 152

\* a frame without a face, and a frame with one
HistoryFrames ==
    {<< >>,
     <<[dominant_emotion |-> "happy", confidence |-> Rat(6, 10), face_size |-> 10000]>>}

InitHistory ==
    /\ ScoringIdle
    /\ WebcamIdle
    /\ ControllerIdle
    /\ AnalyzerIdle

\* analyze_frame(frame) on an initialised analyzer
EnhancedAnalyzeFrame ==
    \E emotions \in HistoryFrames :
        LET timestamp == IF emotions = << >> THEN entries_arrived ELSE entries_arrived + 1
            outcome == Enhanced_analyze_frame(emotion_history, emotions, timestamp)
        IN  /\ timestamp <= MaxEntries
            /\ entries_arrived' = timestamp
            /\ face_emotions' = emotions
            /\ overall_stress' = outcome.overall_stress
            /\ emotion_history' = outcome.emotion_history
            /\ UNCHANGED <<fusion_vars, dass_vars, assessment_vars, classifier_vars,
                           webcam_vars, controller_vars, face_history, face_arrivals,
                           face_stability>>

NextHistory == EnhancedAnalyzeFrame

SpecHistory == InitHistory /\ [][NextHistory]_vars

\* C29: after any number of analyze_frame calls that detect faces,
\* emotion_history never holds more than 100 entries and always holds a
\* contiguous run of the most recent entries in arrival order; when the 101st
\* entry arrives only the 50 newest are kept.
C29_HistoryBounded ==
    /\ Len(emotion_history) <= HistoryLimit
    /\ \A i \in 1..Len(emotion_history) :
           emotion_history[i].timestamp = entries_arrived - Len(emotion_history) + i
    /\ entries_arrived = HistoryLimit + 1 => Len(emotion_history) = HistoryKeep

\* the 101st entry has arrived: entries 52 to 101 are what is left
C29_Witness ==
    /\ entries_arrived = HistoryLimit + 1
    /\ Len(emotion_history) = HistoryKeep
    /\ emotion_history[1].timestamp = HistoryLimit + 1 - HistoryKeep + 1
    /\ emotion_history[HistoryKeep].timestamp = HistoryLimit + 1

\* the history is cut a second time, at the 152nd entry
C29_WitnessSecondCut ==
    /\ entries_arrived = HistoryKeep + HistoryLimit + 2
    /\ Len(emotion_history) = HistoryKeep

-----------------------------------------------------------------------------
(* CPUFacialBehaviorAnalyzer._calculate_stability and its face_history.  The
   coordinates of the inputs are chosen so that every movement, the square
   root of a sum of squares, is an integer. *)

\* if len(self.face_history) > 10
FaceHistoryLimit == 10

\* math.sqrt(n) for n a perfect square
Sqrt(n) == CHOOSE r \in 0..n : r * r = n

\* math.sqrt((curr_x - prev_x)**2 + (curr_y - prev_y)**2)
Movement(prev, curr) ==
    Sqrt((curr[1] - prev[1]) * (curr[1] - prev[1])
         + (curr[2] - prev[2]) * (curr[2] - prev[2]))

\* the stability of a history of at least two coordinates
Stability(history) ==
    LET movements == [i \in 1..(Len(history) - 1) |->
                         Int2Rat(Movement(history[i], history[i + 1]))]
        avg_movement == RatDiv(RatSum(movements), Int2Rat(Len(movements)))
    IN  RatMax(Zero, RatSub(One, RatDiv(avg_movement, Int2Rat(50))))

\* _calculate_stability with pop() for pop(0): the newest coordinate leaves
_calculate_stability_PopNewest(history, current_coords) ==
    IF Len(history) < 2
    THEN [face_history |-> Append(history, current_coords), stability |-> One]
    ELSE LET recent == IF Len(history) > FaceHistoryLimit
                       THEN SubSeq(history, 1, Len(history) - 1)
                       ELSE history
             appended == Append(recent, current_coords)
         IN  [face_history |-> appended, stability |-> Stability(appended)]

\* CPUFacialBehaviorAnalyzer._calculate_stability: the history it leaves and
\* the stability it returns
_calculate_stability(history, current_coords) ==
    IF Len(history) < 2
    THEN [face_history |-> Append(history, current_coords), stability |-> One]
    ELSE LET recent == IF Len(history) > FaceHistoryLimit THEN Tail(history) ELSE history
             appended == Append(recent, current_coords)
         IN  [face_history |-> appended, stability |-> Stability(appended)]

(* Inputs *)

\* how many times _calculate_stability is called in a run
MaxStabilityCalls == 13

\* (x, y, w, h) of the largest face of a frame: at rest, or moved by (3, 4)
FaceCoordinates == {<<0, 0, 50, 50>>, <<3, 4, 50, 50>>}

InitStability ==
    /\ ScoringIdle
    /\ WebcamIdle
    /\ ControllerIdle
    /\ AnalyzerIdle

\* _calculate_stability(face_coords), as analyze_frame calls it through
\* _calculate_facial_metrics for the largest face of a frame
CalculateStability ==
    \E current_coords \in FaceCoordinates :
        LET outcome == _calculate_stability(face_history, current_coords)
        IN  /\ Len(face_arrivals) < MaxStabilityCalls
            /\ face_arrivals' = Append(face_arrivals, current_coords)
            /\ face_history' = outcome.face_history
            /\ face_stability' = outcome.stability
            /\ UNCHANGED <<fusion_vars, dass_vars, assessment_vars, classifier_vars,
                           webcam_vars, controller_vars, face_emotions, overall_stress,
                           emotion_history, entries_arrived>>

NextStability == CalculateStability

SpecStability == InitStability /\ [][NextStability]_vars

\* C30: _calculate_stability keeps face_history bounded and in arrival order:
\* after any number of calls it never holds more than 11 coordinates, and
\* when it is over 10 exactly the oldest one is evicted before the new one is
\* appended, so that it always holds the most recent coordinates, all of
\* them until there are more than 11.
C30_FaceHistoryBounded ==
    /\ Len(face_history) <= FaceHistoryLimit + 1
    /\ Len(face_history) =
           IF Len(face_arrivals) <= FaceHistoryLimit + 1
           THEN Len(face_arrivals)
           ELSE FaceHistoryLimit + 1
    /\ face_history = LastN(face_arrivals, Len(face_history))

\* the twelfth coordinate has arrived and the first, which differs from the
\* second, has left
C30_Witness ==
    /\ Len(face_arrivals) = FaceHistoryLimit + 2
    /\ Len(face_history) = FaceHistoryLimit + 1
    /\ face_arrivals[1] # face_arrivals[2]
    /\ face_history[1] = face_arrivals[2]
    /\ face_history[FaceHistoryLimit + 1] = face_arrivals[FaceHistoryLimit + 2]

=============================================================================
